---- MODULE Spec2Model ----
(***************************************************************************)
(* A model of PyKnife's ls command (src/src/commands/ls.py): the pure      *)
(* formatters format_size and format_mode, the directory lister            *)
(* list_directory and the per-argument loop of main.                       *)
(*                                                                         *)
(* Text is modelled as a sequence of one-character strings, so that        *)
(* printing a number, padding a column or testing a leading dot is         *)
(* computed and not assumed.  An ANSI escape sequence, and a literal       *)
(* fragment of a message's format string, is one element.                  *)
(***************************************************************************)
EXTENDS Integers, Sequences, FiniteSets, TLC

VARIABLES
    pc,          \* position of the running call: "call", "loop", "done", ...
    fn,          \* which entry point the behaviour exercises
    in_size,     \* format_size: the size argument
    in_human,    \* format_size: the human_readable argument
    in_mode,     \* format_mode: the mode argument
    ret,         \* the value returned by the entry point (NoRet before return)
    options,     \* main: the argparse namespace
    files,       \* main: the list of path arguments
    fs,          \* the filesystem: canonical path -> node
    isatty,      \* sys.stdout.isatty()
    term_width,  \* shutil.get_terminal_size().columns
    i,           \* main: index of the path being processed (0-based)
    exit_code,   \* main: the exit_code local
    out,         \* lines printed on sys.stdout
    err,         \* lines printed on sys.stderr
    log,         \* one record per processed argument (observation only)
    args         \* main: the command line, its flags and its paths

vars == <<pc, fn, in_size, in_human, in_mode, ret, options, files, fs,
          isatty, term_width, i, exit_code, out, err, log, args>>

NoRet == -1

-----------------------------------------------------------------------------
(* Bounds of the model. *)

\* format_size is exercised on every size 0 .. MaxSize ...
MaxSize == 11000
\* ... and on the sizes a * 104858 (about a tenth of a mebibyte), a <= MaxMegaTenths
MaxMegaTenths == 120
\* the most flags on a command line
MaxFlags == 2
\* the most path arguments on a command line
MaxArgs == 3
\* the most names in the listed directory when its contents vary
MaxEntries == 2
\* the most names in the listed directory when the sort options vary
MaxSorted == 3
\* the terminal width in columns
TermWidth == 6
\* the most names in the listed directory when the terminal width varies
MaxGrid == 3

-----------------------------------------------------------------------------
(* Text helpers. *)

Digit == <<"0", "1", "2", "3", "4", "5", "6", "7", "8", "9">>

\* str(n) for an int n >= 0
RECURSIVE str(_)
str(n) == IF n < 10 THEN <<Digit[n + 1]>>
          ELSE Append(str(n \div 10), Digit[(n % 10) + 1])

RECURSIVE Spaces(_)
Spaces(n) == IF n <= 0 THEN <<>> ELSE <<" ">> \o Spaces(n - 1)

-----------------------------------------------------------------------------
(* format_size *)

units == << <<>>, <<"K">>, <<"M">>, <<"G">>, <<"T">>, <<"P">>, <<"E">>, <<"Z">>, <<"Y">> >>

\* The while loop of format_size.  The float `size` after the divisions is the
\* exact rational num/den: dividing a double below 2^53 by 1024 is exact.
RECURSIVE ScaleSize(_, _, _)
ScaleSize(num, den, unit_idx) ==
    IF num >= 1024 * den /\ unit_idx < Len(units) - 1
    THEN ScaleSize(num, den * 1024, unit_idx + 1)
    ELSE [num |-> num, den |-> den, unit_idx |-> unit_idx]

\* f"{num/den:.1f}": the value rounded to one decimal, ties to even (the value
\* is a binary fraction, so the decimal expansion is exact and ties are real).
OneDecimal(num, den) ==
    LET t  == (10 * num) \div den
        r  == (10 * num) % den
        up == 2 * r > den \/ (2 * r = den /\ t % 2 = 1)
        tenths == IF up THEN t + 1 ELSE t
    IN  str(tenths \div 10) \o <<".">> \o <<Digit[(tenths % 10) + 1]>>

\* format_size without the special case for exactly 1.0
format_size_NoSpecialCase(size, human_readable) ==
    IF ~human_readable THEN str(size)
    ELSE LET s == ScaleSize(size, 1, 0)
         IN  IF s.unit_idx = 0 THEN str(s.num \div s.den)
             ELSE IF s.num < 10 * s.den
                  THEN OneDecimal(s.num, s.den) \o units[s.unit_idx + 1]
                  ELSE str(s.num \div s.den) \o units[s.unit_idx + 1]

\* format_size with the special case widened to every whole value
format_size_WholeNumbers(size, human_readable) ==
    IF ~human_readable THEN str(size)
    ELSE LET s == ScaleSize(size, 1, 0)
         IN  IF s.unit_idx = 0 THEN str(s.num \div s.den)
             ELSE IF s.num < 10 * s.den
                  THEN IF s.num % s.den = 0
                       THEN str(s.num \div s.den) \o units[s.unit_idx + 1]
                       ELSE OneDecimal(s.num, s.den) \o units[s.unit_idx + 1]
                  ELSE str(s.num \div s.den) \o units[s.unit_idx + 1]

\* format_size without the early return for human_readable=False
format_size_AlwaysHuman(size, human_readable) ==
    LET s == ScaleSize(size, 1, 0)
    IN  IF s.unit_idx = 0 THEN str(s.num \div s.den)
        ELSE IF s.num < 10 * s.den
             THEN IF s.num = s.den
                  THEN <<"1">> \o units[s.unit_idx + 1]
                  ELSE OneDecimal(s.num, s.den) \o units[s.unit_idx + 1]
             ELSE str(s.num \div s.den) \o units[s.unit_idx + 1]

format_size(size, human_readable) ==
    IF ~human_readable THEN str(size)
    ELSE LET s == ScaleSize(size, 1, 0)
         IN  IF s.unit_idx = 0 THEN str(s.num \div s.den)
             ELSE IF s.num < 10 * s.den
                  THEN IF s.num = s.den
                       THEN <<"1">> \o units[s.unit_idx + 1]
                       ELSE OneDecimal(s.num, s.den) \o units[s.unit_idx + 1]
                  ELSE str(s.num \div s.den) \o units[s.unit_idx + 1]

-----------------------------------------------------------------------------
(* format_mode *)

S_IFMT(mode) == ((mode \div 4096) % 16) * 4096

S_IFDIR  == 16384
S_IFCHR  == 8192
S_IFBLK  == 24576
S_IFREG  == 32768
S_IFIFO  == 4096
S_IFLNK  == 40960
S_IFSOCK == 49152

S_ISDIR(mode)  == S_IFMT(mode) = S_IFDIR
S_ISLNK(mode)  == S_IFMT(mode) = S_IFLNK
S_ISFIFO(mode) == S_IFMT(mode) = S_IFIFO
S_ISSOCK(mode) == S_IFMT(mode) = S_IFSOCK
S_ISBLK(mode)  == S_IFMT(mode) = S_IFBLK
S_ISCHR(mode)  == S_IFMT(mode) = S_IFCHR

S_ISUID == 2048
S_ISGID == 1024
S_ISVTX == 512
S_IRUSR == 256
S_IWUSR == 128
S_IXUSR == 64
S_IRGRP == 32
S_IWGRP == 16
S_IXGRP == 8
S_IROTH == 4
S_IWOTH == 2
S_IXOTH == 1

\* mode & bit, for a single-bit mask
And(mode, bit) == (mode \div bit) % 2 = 1

\* the type letter with "?" for a type that is none of the seven
TypeChar_Unknown(mode) ==
    IF S_ISDIR(mode) THEN "d"
    ELSE IF S_ISLNK(mode) THEN "l"
    ELSE IF S_ISFIFO(mode) THEN "p"
    ELSE IF S_ISSOCK(mode) THEN "s"
    ELSE IF S_ISBLK(mode) THEN "b"
    ELSE IF S_ISCHR(mode) THEN "c"
    ELSE IF S_IFMT(mode) = S_IFREG THEN "-"
    ELSE "?"

TypeChar(mode) ==
    IF S_ISDIR(mode) THEN "d"
    ELSE IF S_ISLNK(mode) THEN "l"
    ELSE IF S_ISFIFO(mode) THEN "p"
    ELSE IF S_ISSOCK(mode) THEN "s"
    ELSE IF S_ISBLK(mode) THEN "b"
    ELSE IF S_ISCHR(mode) THEN "c"
    ELSE "-"

\* a triplet whose special bit shows in lower case whatever the execute bit
Triplet_AlwaysLower(mode, rbit, wbit, xbit, special, lower, upper) ==
    << IF And(mode, rbit) THEN "r" ELSE "-",
       IF And(mode, wbit) THEN "w" ELSE "-",
       IF And(mode, special) THEN lower
       ELSE (IF And(mode, xbit) THEN "x" ELSE "-") >>

\* one permission triplet: read, write, and the execute slot with its special bit
Triplet(mode, rbit, wbit, xbit, special, lower, upper) ==
    << IF And(mode, rbit) THEN "r" ELSE "-",
       IF And(mode, wbit) THEN "w" ELSE "-",
       IF And(mode, special)
       THEN (IF And(mode, xbit) THEN lower ELSE upper)
       ELSE (IF And(mode, xbit) THEN "x" ELSE "-") >>

format_mode(mode) ==
    <<TypeChar(mode)>>
    \o Triplet(mode, S_IRUSR, S_IWUSR, S_IXUSR, S_ISUID, "s", "S")
    \o Triplet(mode, S_IRGRP, S_IWGRP, S_IXGRP, S_ISGID, "s", "S")
    \o Triplet(mode, S_IROTH, S_IWOTH, S_IXOTH, S_ISVTX, "t", "T")

-----------------------------------------------------------------------------
(* Names, paths and the filesystem.                                        *)
(* A name is a text; a path is the sequence of its components (the text    *)
(* of a path joins them with "/").  fs maps the canonical path of every    *)
(* existing object to its node; <<>> is the working directory.             *)

Dot    == <<".">>
DotDot == <<".", ".">>

\* code points of the characters that occur in names
Ord(c) ==
    CASE c = "." -> 46 [] c = "/" -> 47
      [] c = "B" -> 66
      [] c = "a" -> 97 [] c = "b" -> 98 [] c = "c" -> 99 [] c = "d" -> 100
      [] c = "e" -> 101 [] c = "f" -> 102 [] c = "g" -> 103 [] c = "h" -> 104
      [] c = "l" -> 108 [] c = "s" -> 115 [] c = "u" -> 117 [] c = "x" -> 120

\* a < b for two Python strings: lexicographic by code point
RECURSIVE StrLess(_, _)
StrLess(a, b) ==
    IF b = <<>> THEN FALSE
    ELSE IF a = <<>> THEN TRUE
    ELSE IF Ord(Head(a)) # Ord(Head(b)) THEN Ord(Head(a)) < Ord(Head(b))
    ELSE StrLess(Tail(a), Tail(b))

\* entry.startswith('.')
startswith_dot(name) == Len(name) > 0 /\ name[1] = "."

\* the text of a path
RECURSIVE PathText(_)
PathText(path) ==
    IF path = <<>> THEN <<>>
    ELSE IF Len(path) = 1 THEN path[1]
    ELSE path[1] \o <<"/">> \o PathText(Tail(path))

\* os.path.join(directory, entry), entry a single relative component
path_join(directory, entry) == Append(directory, entry)

\* os.path.basename(path)
basename(path) == IF path = <<>> THEN <<>> ELSE path[Len(path)]

Parent(p) == IF p = <<>> THEN <<>> ELSE SubSeq(p, 1, Len(p) - 1)

Failed == [ok |-> FALSE, at |-> <<>>]

\* follow the symbolic link chain that starts at canonical path p
RECURSIVE Follow(_, _)
Follow(p, depth) ==
    IF p \notin DOMAIN fs THEN Failed
    ELSE IF fs[p].type = "lnk"
         THEN IF depth = 0 THEN Failed ELSE Follow(fs[p].target, depth - 1)
         ELSE [ok |-> TRUE, at |-> p]

\* path resolution from the directory cur; the last component is followed
\* when follow_last (stat) and not when ~follow_last (lstat)
RECURSIVE Walk(_, _, _)
Walk(cur, rest, follow_last) ==
    IF rest = <<>> THEN [ok |-> TRUE, at |-> cur]
    ELSE IF fs[cur].type # "dir" THEN Failed
    ELSE IF Head(rest) = Dot THEN Walk(cur, Tail(rest), follow_last)
    ELSE IF Head(rest) = DotDot THEN Walk(Parent(cur), Tail(rest), follow_last)
    ELSE LET next == Append(cur, Head(rest))
         IN  IF next \notin DOMAIN fs THEN Failed
             ELSE IF fs[next].type = "lnk" /\ (Len(rest) > 1 \/ follow_last)
                  THEN LET t == Follow(next, Cardinality(DOMAIN fs))
                       IN  IF t.ok THEN Walk(t.at, Tail(rest), follow_last)
                           ELSE Failed
                  ELSE Walk(next, Tail(rest), follow_last)

TypeBits(type) ==
    CASE type = "dir" -> S_IFDIR
      [] type = "lnk" -> S_IFLNK
      [] type = "reg" -> S_IFREG

StatFailed == [ok |-> FALSE, st_mode |-> 0, st_size |-> 0, st_mtime |-> 0,
               st_nlink |-> 0, st_uid |-> 0, st_gid |-> 0]

StatOf(r) ==
    IF ~r.ok THEN StatFailed
    ELSE LET n == fs[r.at]
         IN  [ok |-> TRUE, st_mode |-> TypeBits(n.type) + n.perm,
              st_size |-> n.size, st_mtime |-> n.mtime, st_nlink |-> n.nlink,
              st_uid |-> n.uid, st_gid |-> n.gid]

\* os.stat(path) and os.lstat(path); ok = FALSE stands for a raised OSError
os_stat(path)  == StatOf(Walk(<<>>, path, TRUE))
os_lstat(path) == StatOf(Walk(<<>>, path, FALSE))

os_path_exists(path) == os_stat(path).ok
os_path_isdir(path)  == os_stat(path).ok /\ S_ISDIR(os_stat(path).st_mode)
os_path_islink(path) == os_lstat(path).ok /\ S_ISLNK(os_lstat(path).st_mode)

\* os.listdir(path): the names in the order the system returns them, or the
\* strerror of the OSError raised
os_listdir(path) ==
    LET r == Walk(<<>>, path, TRUE)
    IN  IF ~r.ok
        THEN [ok |-> FALSE, names |-> <<>>, strerror |-> "No such file or directory"]
        ELSE IF fs[r.at].type # "dir"
        THEN [ok |-> FALSE, names |-> <<>>, strerror |-> "Not a directory"]
        ELSE IF ~fs[r.at].readable
        THEN [ok |-> FALSE, names |-> <<>>, strerror |-> "Permission denied"]
        ELSE [ok |-> TRUE, names |-> fs[r.at].names, strerror |-> ""]

-----------------------------------------------------------------------------
(* Printed lines.  A line is the sequence of its space-separated columns;  *)
(* kind records which print statement wrote it.                            *)

Line(kind, cols) == [kind |-> kind, cols |-> cols]

BlankLine        == Line("blank", <<>>)
HeaderLine(path) == Line("header", <<PathText(path) \o <<":">>>>)
EntryLine(text)  == Line("entry", <<text>>)
RowLine(text)    == Line("row", <<text>>)

\* f"ls: cannot access '{path}': {reason}" on sys.stderr
ErrorLine(path, reason) ==
    Line("error", << <<"ls: cannot access '">> \o PathText(path) \o <<"': ">> \o <<reason>> >>)

RECURSIVE Flatten(_)
Flatten(ss) == IF ss = <<>> THEN <<>> ELSE Head(ss) \o Flatten(Tail(ss))

RECURSIVE MaxOf(_)
MaxOf(ns) == IF Len(ns) = 1 THEN ns[1]
             ELSE LET m == MaxOf(Tail(ns)) IN IF ns[1] >= m THEN ns[1] ELSE m

\* f"{text:{width}}" for a str (left-aligned) and f"{n:{width}}" for an int
\* (right-aligned)
PadStr(text, width) == text \o Spaces(width - Len(text))
PadInt(n, width)    == Spaces(width - Len(str(n))) \o str(n)

-----------------------------------------------------------------------------
(* Colour, owner names, time. *)

RESET == "ESC[0m"

Escapes == {RESET, "ESC[1;34m", "ESC[1;32m", "ESC[1;36m", "ESC[33m",
            "ESC[1;35m", "ESC[1;33m"}

\* get_color_for_file; "" is no colour
get_color_for_file(path, mode) ==
    IF S_ISDIR(mode) THEN "ESC[1;34m"
    ELSE IF S_ISLNK(mode) THEN "ESC[1;36m"
    ELSE IF S_ISFIFO(mode) THEN "ESC[33m"
    ELSE IF S_ISSOCK(mode) THEN "ESC[1;35m"
    ELSE IF S_ISBLK(mode) THEN "ESC[1;33m"
    ELSE IF S_ISCHR(mode) THEN "ESC[1;33m"
    ELSE IF And(mode, S_IXUSR) \/ And(mode, S_IXGRP) \/ And(mode, S_IXOTH)
         THEN "ESC[1;32m"
    ELSE ""

strip_ansi_codes(text) == SelectSeq(text, LAMBDA c : c \notin Escapes)

\* the test without its first conjunct: "never" is not honoured on a terminal
ColorRequested_IgnoresNever(opts) ==
    opts.color = "always" \/ isatty

\* options.color != "never" and (options.color == "always" or sys.stdout.isatty())
ColorRequested(opts) ==
    opts.color # "never" /\ (opts.color = "always" \/ isatty)

\* the name as printed: wrapped in its colour when colour is requested, the
\* lstat succeeded and the file has a colour
Colored(entry, path, st, opts) ==
    IF st.ok /\ ColorRequested(opts) /\ get_color_for_file(path, st.st_mode) # ""
    THEN <<get_color_for_file(path, st.st_mode)>> \o entry \o <<RESET>>
    ELSE entry

\* the host has the pwd and grp modules (POSIX)
PWD_GRP_AVAILABLE == TRUE

\* pwd.getpwuid / grp.getgrgid know id 0 only; any other id raises KeyError
get_user_name(uid) ==
    IF PWD_GRP_AVAILABLE /\ uid = 0 THEN <<"r", "o", "o", "t">> ELSE str(uid)

get_group_name(gid) ==
    IF PWD_GRP_AVAILABLE /\ gid = 0 THEN <<"r", "o", "o", "t">> ELSE str(gid)

\* format_time: timestamps from 10 on lie in the current year.  The strftime
\* pattern chosen is kept with the timestamp.
format_time(timestamp) ==
    IF timestamp >= 10 THEN <<"%b %d %H:%M@">> \o str(timestamp)
    ELSE <<"%b %d  %Y@">> \o str(timestamp)

\* the number of characters strftime prints for the two patterns of
\* format_time: %b is three letters, %d, %H and %M two digits, %Y four
strftime_len(pattern) ==
    IF pattern = "%b %d %H:%M@" THEN 3 + 1 + 2 + 1 + 2 + 1 + 2
    ELSE 3 + 1 + 2 + 2 + 4

-----------------------------------------------------------------------------
(* list_directory *)

\* list.sort(key=..., reverse=...): Python's sort is stable, also with
\* reverse=True (equal elements keep their original order).  lt[<<j, k>>]
\* says that the key of s[j] is less than the key of s[k].
python_sort(s, lt, reverse) ==
    LET n == Len(s)
        Before(j, k) == IF reverse THEN lt[<<k, j>>] ELSE lt[<<j, k>>]
        rank(k) == 1 + Cardinality({j \in 1..n :
                        Before(j, k) \/ (j < k /\ ~Before(k, j))})
    IN  [p \in 1..n |-> s[CHOOSE k \in 1..n : rank(k) = p]]

\* key=lambda x: x[1].st_mtime, key=lambda x: x[1].st_size and no key (the name)
ByMtime(ews) ==
    [p \in (1..Len(ews)) \X (1..Len(ews)) |->
        ews[p[1]].stat_info.st_mtime < ews[p[2]].stat_info.st_mtime]
BySize(ews) ==
    [p \in (1..Len(ews)) \X (1..Len(ews)) |->
        ews[p[1]].stat_info.st_size < ews[p[2]].stat_info.st_size]
ByName(entries) ==
    [p \in (1..Len(entries)) \X (1..Len(entries)) |->
        StrLess(entries[p[1]], entries[p[2]])]

\* the filter with "if not options.all" forgotten: dot names are kept
FilterHidden_KeepsAll(names, opts) ==
    IF ~opts.all THEN names ELSE <<Dot, DotDot>> \o names

\* lines 356-361: the hidden-entry filter
FilterHidden(names, opts) ==
    IF ~opts.all
    THEN SelectSeq(names, LAMBDA entry : ~startswith_dot(entry))
    ELSE <<Dot, DotDot>> \o names

FullPaths(directory, entries) ==
    [k \in 1..Len(entries) |-> path_join(directory, entries[k])]

\* lines 370-377 and 384-391: the entries whose os.stat succeeds, with it
EntriesWithStats(directory, entries) ==
    SelectSeq([k \in 1..Len(entries) |->
                  [entry |-> entries[k],
                   stat_info |-> os_stat(path_join(directory, entries[k]))]],
              LAMBDA e : e.stat_info.ok)

EntryNames(entries_with_stats) ==
    [k \in 1..Len(entries_with_stats) |-> entries_with_stats[k].entry]

\* the sorter with reverse=options.reverse for every key
SortEntries_SameDirection(directory, entries, opts) ==
    LET ews == EntriesWithStats(directory, entries)
    IN  IF opts.sort_by_time
        THEN EntryNames(python_sort(ews, ByMtime(ews), opts.reverse))
        ELSE IF opts.sort_by_size
        THEN EntryNames(python_sort(ews, BySize(ews), opts.reverse))
        ELSE python_sort(entries, ByName(entries), opts.reverse)

\* lines 366-402: the sorter
SortEntries(directory, entries, opts) ==
    LET ews == EntriesWithStats(directory, entries)
    IN  IF opts.sort_by_time
        THEN EntryNames(python_sort(ews, ByMtime(ews), ~opts.reverse))
        ELSE IF opts.sort_by_size
        THEN EntryNames(python_sort(ews, BySize(ews), ~opts.reverse))
        ELSE python_sort(entries, ByName(entries), opts.reverse)

\* lines 414-432: the entries whose os.lstat succeeds
ValidEntries(directory, entries) ==
    SelectSeq(entries, LAMBDA entry : os_lstat(path_join(directory, entry)).ok)

\* the rows with every field at its own width, as f"{x}" prints it
LongRows_Unpadded(directory, entries, opts) ==
    LET stats == [k \in 1..Len(entries) |-> os_lstat(path_join(directory, entries[k]))]
    IN  [k \in 1..Len(entries) |->
            Line("long",
                 << format_mode(stats[k].st_mode),
                    str(stats[k].st_nlink),
                    get_user_name(stats[k].st_uid),
                    get_group_name(stats[k].st_gid),
                    format_size(stats[k].st_size, opts.human_readable),
                    format_time(stats[k].st_mtime),
                    Colored(entries[k], path_join(directory, entries[k]), stats[k], opts) >>)]

\* lines 434-465: the long-format rows of the valid entries
LongRows(directory, entries, opts) ==
    LET stats == [k \in 1..Len(entries) |-> os_lstat(path_join(directory, entries[k]))]
        nlink_width == MaxOf([k \in 1..Len(stats) |-> Len(str(stats[k].st_nlink))])
        user_width  == MaxOf([k \in 1..Len(stats) |-> Len(get_user_name(stats[k].st_uid))])
        group_width == MaxOf([k \in 1..Len(stats) |-> Len(get_group_name(stats[k].st_gid))])
        size_width  == MaxOf([k \in 1..Len(stats) |->
                                 Len(format_size(stats[k].st_size, opts.human_readable))])
    IN  [k \in 1..Len(entries) |->
            Line("long",
                 << format_mode(stats[k].st_mode),
                    PadInt(stats[k].st_nlink, nlink_width),
                    PadStr(get_user_name(stats[k].st_uid), user_width),
                    PadStr(get_group_name(stats[k].st_gid), group_width),
                    PadStr(format_size(stats[k].st_size, opts.human_readable), size_width),
                    format_time(stats[k].st_mtime),
                    Colored(entries[k], path_join(directory, entries[k]), stats[k], opts) >>)]

\* lines 469-482 and 490-503: every entry, coloured when its lstat succeeds
ColoredEntries(directory, entries, opts) ==
    [k \in 1..Len(entries) |->
        Colored(entries[k], path_join(directory, entries[k]),
                os_lstat(path_join(directory, entries[k])), opts)]

EntryLines(texts) == [k \in 1..Len(texts) |-> EntryLine(texts[k])]

\* lines 519-532: one row of the grid, from column col_idx on
RECURSIVE GridRow(_, _, _, _, _, _)
GridRow(colored_entries, row_idx, col_idx, num_cols, num_rows, max_entry_len) ==
    LET idx == col_idx * num_rows + row_idx
    IN  IF col_idx >= num_cols \/ idx >= Len(colored_entries) THEN <<>>
        ELSE LET entry == colored_entries[idx + 1]
                 entry_len == Len(strip_ansi_codes(entry))
                 cell == IF col_idx < num_cols - 1
                         THEN entry \o Spaces(max_entry_len - entry_len)
                         ELSE entry
             IN  cell \o GridRow(colored_entries, row_idx, col_idx + 1,
                                 num_cols, num_rows, max_entry_len)

NumCols(colored_entries, width) ==
    LET max_entry_len ==
            MaxOf([k \in 1..Len(colored_entries) |->
                      Len(strip_ansi_codes(colored_entries[k]))]) + 2
        q == width \div max_entry_len
    IN  IF q >= 1 THEN q ELSE 1

\* the layout filled row by row: cell (row, col) shows entry row * num_cols + col
Grid_RowMajor(colored_entries, width) ==
    LET max_entry_len ==
            MaxOf([k \in 1..Len(colored_entries) |->
                      Len(strip_ansi_codes(colored_entries[k]))]) + 2
        num_cols == NumCols(colored_entries, width)
        num_rows == (Len(colored_entries) + num_cols - 1) \div num_cols
        Cell(r, c) ==
            LET idx == r * num_cols + c
            IN  IF idx >= Len(colored_entries) THEN <<>>
                ELSE IF c < num_cols - 1
                THEN colored_entries[idx + 1]
                     \o Spaces(max_entry_len
                               - Len(strip_ansi_codes(colored_entries[idx + 1])))
                ELSE colored_entries[idx + 1]
    IN  [r \in 1..num_rows |->
            RowLine(Flatten([c \in 1..num_cols |-> Cell(r - 1, c - 1)]))]

\* the layout with the row count rounded down
Grid_FloorRows(colored_entries, width) ==
    LET max_entry_len ==
            MaxOf([k \in 1..Len(colored_entries) |->
                      Len(strip_ansi_codes(colored_entries[k]))]) + 2
        num_cols == NumCols(colored_entries, width)
        num_rows == Len(colored_entries) \div num_cols
    IN  [r \in 1..num_rows |->
            RowLine(GridRow(colored_entries, r - 1, 0, num_cols, num_rows, max_entry_len))]

\* lines 511-534: the multi-column layout
Grid(colored_entries, width) ==
    LET max_entry_len ==
            MaxOf([k \in 1..Len(colored_entries) |->
                      Len(strip_ansi_codes(colored_entries[k]))]) + 2
        num_cols == NumCols(colored_entries, width)
        num_rows == (Len(colored_entries) + num_cols - 1) \div num_cols
    IN  [r \in 1..num_rows |->
            RowLine(GridRow(colored_entries, r - 1, 0, num_cols, num_rows, max_entry_len))]

\* the block printed also for a symbolic link to a directory
SubdirBlock_FollowsLinks(path, opts) ==
    IF os_path_isdir(path) /\ basename(path) \notin {Dot, DotDot}
    THEN LET ld == os_listdir(path)
         IN  IF ld.ok /\ ld.names # <<>>
             THEN <<BlankLine, HeaderLine(path)>>
                  \o EntryLines(SelectSeq(python_sort(ld.names, ByName(ld.names), FALSE),
                         LAMBDA subentry : ~startswith_dot(subentry) \/ opts.all))
             ELSE <<>>
    ELSE <<>>

\* lines 539-550: the block printed for one entry path under -R
SubdirBlock(path, opts) ==
    IF os_path_isdir(path) /\ ~os_path_islink(path) /\ basename(path) \notin {Dot, DotDot}
    THEN LET ld == os_listdir(path)
         IN  IF ld.ok /\ ld.names # <<>>
             THEN <<BlankLine, HeaderLine(path)>>
                  \o EntryLines(SelectSeq(python_sort(ld.names, ByName(ld.names), FALSE),
                         LAMBDA subentry : ~startswith_dot(subentry) \/ opts.all))
             ELSE <<>>
    ELSE <<>>

\* lines 536-550: the recursive listing
RecursiveListing(directory, entries, opts) ==
    IF opts.recursive
    THEN Flatten([k \in 1..Len(entries) |->
                     SubdirBlock(path_join(directory, entries[k]), opts)])
    ELSE <<>>

Returned(code, lines, errors) == [code |-> code, out |-> lines, err |-> errors]

\* list_directory(directory, options, prefix): the exit code, the lines
\* printed on stdout and those printed on stderr
list_directory(directory, opts, prefix) ==
    LET ld == os_listdir(directory)
        entries == SortEntries(directory, FilterHidden(ld.names, opts), opts)
        title == IF opts.recursive /\ prefix # <<>>
                 THEN <<BlankLine, HeaderLine(directory)>> ELSE <<>>
    IN  IF ~ld.ok
        THEN Returned(1, <<>>, <<ErrorLine(directory, ld.strerror)>>)
        ELSE IF opts.l
        THEN IF entries = <<>> \/ ValidEntries(directory, entries) = <<>>
             THEN Returned(0, title, <<>>)
             ELSE Returned(0, title
                     \o LongRows(directory, ValidEntries(directory, entries), opts)
                     \o RecursiveListing(directory, ValidEntries(directory, entries), opts),
                     <<>>)
        ELSE IF opts.one_per_line
        THEN Returned(0, title
                \o EntryLines(ColoredEntries(directory, entries, opts))
                \o RecursiveListing(directory, entries, opts), <<>>)
        ELSE IF entries = <<>>
        THEN Returned(0, title, <<>>)
        ELSE IF ~isatty /\ ~opts.multicolumn
        THEN Returned(0, title \o EntryLines(ColoredEntries(directory, entries, opts)), <<>>)
        ELSE Returned(0, title
                \o Grid(ColoredEntries(directory, entries, opts), term_width)
                \o RecursiveListing(directory, entries, opts), <<>>)

-----------------------------------------------------------------------------
(* main *)

\* parse_args: the namespace argparse builds from the flags and the paths
parse_args(a) ==
    [files              |-> a.paths,
     all                |-> "-a" \in a.flags,
     l                  |-> "-l" \in a.flags,
     human_readable     |-> "-H" \in a.flags,
     directory          |-> "-d" \in a.flags,
     recursive          |-> "-R" \in a.flags,
     one_per_line       |-> "-1" \in a.flags,
     multicolumn        |-> "-C" \in a.flags,
     hide_control_chars |-> "-q" \in a.flags,
     verbose            |-> "-v" \in a.flags,
     reverse            |-> "-r" \in a.flags,
     sort_by_size       |-> "-S" \in a.flags,
     sort_by_time       |-> "-t" \in a.flags,
     color              |-> IF "--color=never" \in a.flags THEN "never"
                            ELSE IF "--color=always" \in a.flags THEN "always"
                            ELSE "auto"]

\* the path the loop is at
CurrentPath == files[i + 1]

\* the header printed whenever several paths were given, -d or not
Preamble_HeaderUnderD ==
    (IF i > 0 THEN <<BlankLine>> ELSE <<>>)
    \o (IF Len(files) > 1 THEN <<HeaderLine(CurrentPath)>> ELSE <<>>)

\* lines 580-586: the separator and the header printed before each argument
Preamble ==
    (IF i > 0 THEN <<BlankLine>> ELSE <<>>)
    \o (IF Len(files) > 1 /\ ~options.directory
        THEN <<HeaderLine(CurrentPath)>> ELSE <<>>)

\* lines 602-646: the path itself as one entry
SingleEntry(path, opts) ==
    LET entry_stat == os_lstat(path)
    IN  IF opts.l
        THEN IF ~entry_stat.ok
             THEN Returned(1, <<>>, <<ErrorLine(path, "No such file or directory")>>)
             ELSE Returned(0,
                    <<Line("long",
                        << format_mode(entry_stat.st_mode),
                           str(entry_stat.st_nlink),
                           get_user_name(entry_stat.st_uid),
                           get_group_name(entry_stat.st_gid),
                           format_size(entry_stat.st_size, opts.human_readable),
                           format_time(entry_stat.st_mtime),
                           Colored(basename(path), path, entry_stat, opts) >>)>>,
                    <<>>)
        ELSE Returned(0, <<EntryLine(Colored(basename(path), path, entry_stat, opts))>>, <<>>)

Logged(what, r) ==
    Append(log, [path |-> CurrentPath, what |-> what, code |-> r.code,
                 out |-> r.out, err |-> r.err])

\* lines 564-572: parse the command line; no path means the current directory
MainStart ==
    /\ pc = "start"
    /\ options' = parse_args(args)
    /\ files' = IF args.paths = <<>> THEN << <<Dot>> >> ELSE args.paths
    /\ exit_code' = 0
    /\ i' = 0
    /\ pc' = "loop"
    /\ UNCHANGED <<fn, in_size, in_human, in_mode, ret, fs, isatty, term_width,
                   out, err, log, args>>

\* the missing path reported, the failure not recorded in exit_code
MainMissing_Unrecorded ==
    /\ pc = "loop"
    /\ i < Len(files)
    /\ ~os_path_exists(CurrentPath)
    /\ out' = out \o Preamble
    /\ err' = Append(err, ErrorLine(CurrentPath, "No such file or directory"))
    /\ log' = Logged("missing",
                  Returned(1, <<>>, <<ErrorLine(CurrentPath, "No such file or directory")>>))
    /\ i' = i + 1
    /\ UNCHANGED <<pc, fn, in_size, in_human, in_mode, ret, options, files, fs,
                   isatty, term_width, args, exit_code>>

\* lines 588-593: the path does not exist
MainMissing ==
    /\ pc = "loop"
    /\ i < Len(files)
    /\ ~os_path_exists(CurrentPath)
    /\ out' = out \o Preamble
    /\ err' = Append(err, ErrorLine(CurrentPath, "No such file or directory"))
    /\ exit_code' = 1
    /\ log' = Logged("missing",
                  Returned(1, <<>>, <<ErrorLine(CurrentPath, "No such file or directory")>>))
    /\ i' = i + 1
    /\ UNCHANGED <<pc, fn, in_size, in_human, in_mode, ret, options, files, fs,
                   isatty, term_width, args>>

\* exit_code = result, so that a later success clears an earlier failure
MainListDirectory_Overwrites ==
    /\ pc = "loop"
    /\ i < Len(files)
    /\ os_path_exists(CurrentPath)
    /\ os_path_isdir(CurrentPath) /\ ~options.directory
    /\ LET result == list_directory(CurrentPath, options, <<>>)
       IN  /\ out' = out \o Preamble \o result.out
           /\ err' = err \o result.err
           /\ exit_code' = result.code
           /\ log' = Logged("directory", result)
    /\ i' = i + 1
    /\ UNCHANGED <<pc, fn, in_size, in_human, in_mode, ret, options, files, fs,
                   isatty, term_width, args>>

\* the directory branch taken without looking at options.directory
MainListDirectory_IgnoresD ==
    /\ pc = "loop"
    /\ i < Len(files)
    /\ os_path_exists(CurrentPath)
    /\ os_path_isdir(CurrentPath)
    /\ LET result == list_directory(CurrentPath, options, <<>>)
       IN  /\ out' = out \o Preamble \o result.out
           /\ err' = err \o result.err
           /\ exit_code' = IF result.code # 0 THEN result.code ELSE exit_code
           /\ log' = Logged("directory", result)
    /\ i' = i + 1
    /\ UNCHANGED <<pc, fn, in_size, in_human, in_mode, ret, options, files, fs,
                   isatty, term_width, args>>

\* lines 595-599: a directory, listed by list_directory
MainListDirectory ==
    /\ pc = "loop"
    /\ i < Len(files)
    /\ os_path_exists(CurrentPath)
    /\ os_path_isdir(CurrentPath) /\ ~options.directory
    /\ LET result == list_directory(CurrentPath, options, <<>>)
       IN  /\ out' = out \o Preamble \o result.out
           /\ err' = err \o result.err
           /\ exit_code' = IF result.code # 0 THEN result.code ELSE exit_code
           /\ log' = Logged("directory", result)
    /\ i' = i + 1
    /\ UNCHANGED <<pc, fn, in_size, in_human, in_mode, ret, options, files, fs,
                   isatty, term_width, args>>

\* lines 600-650: a file, or a directory under -d, listed as itself
MainSingle ==
    /\ pc = "loop"
    /\ i < Len(files)
    /\ os_path_exists(CurrentPath)
    /\ ~(os_path_isdir(CurrentPath) /\ ~options.directory)
    /\ LET result == SingleEntry(CurrentPath, options)
       IN  /\ out' = out \o Preamble \o result.out
           /\ err' = err \o result.err
           /\ exit_code' = IF result.code # 0 THEN 1 ELSE exit_code
           /\ log' = Logged("single", result)
    /\ i' = i + 1
    /\ UNCHANGED <<pc, fn, in_size, in_human, in_mode, ret, options, files, fs,
                   isatty, term_width, args>>

\* line 652: return exit_code
MainReturn ==
    /\ pc = "loop"
    /\ i = Len(files)
    /\ ret' = exit_code
    /\ pc' = "done"
    /\ UNCHANGED <<fn, in_size, in_human, in_mode, options, files, fs, isatty,
                   term_width, i, exit_code, out, err, log, args>>

-----------------------------------------------------------------------------
(* Calls of the formatters on their own. *)

CallFormatSize ==
    /\ pc = "call" /\ fn = "format_size"
    /\ ret' = format_size(in_size, in_human)
    /\ pc' = "done"
    /\ UNCHANGED <<fn, in_size, in_human, in_mode, options, files, fs, isatty,
                   term_width, i, exit_code, out, err, log, args>>

CallFormatMode ==
    /\ pc = "call" /\ fn = "format_mode"
    /\ ret' = format_mode(in_mode)
    /\ pc' = "done"
    /\ UNCHANGED <<fn, in_size, in_human, in_mode, options, files, fs, isatty,
                   term_width, i, exit_code, out, err, log, args>>

-----------------------------------------------------------------------------
(* The initial states: a command line and a filesystem.                    *)

Node(type, size, mtime, perm, nlink, uid, target, names, readable) ==
    [type |-> type, size |-> size, mtime |-> mtime, perm |-> perm,
     nlink |-> nlink, uid |-> uid, gid |-> uid, target |-> target,
     names |-> names, readable |-> readable]

Range(s) == {s[k] : k \in 1..Len(s)}

\* the sequences without repetition of at most n elements of S
Arrangements(S, n) ==
    UNION {{s \in [1..k -> S] : \A a, b \in 1..k : a # b => s[a] # s[b]} : k \in 0..n}

\* The working directory holds the directory d, the 2048-byte file f and the
\* directory u that may not be read; x does not exist.  os.listdir(d) returns
\* dnames.  Of the names d may hold, a and b are files of equal size, b is
\* executable, .h is a hidden file as new as b, s is a directory (of an
\* earlier year) that holds c and .h, l is a symbolic link whose target is
\* gone, and g is a name os.listdir still returns while its file cannot be
\* reached any more (removed meanwhile).
Tree(dnames) ==
    LET d == <<"d">>
        inside == {<<d, n>> : n \in Range(dnames) \ {<<"g">>}}
        below  == IF <<"s">> \in Range(dnames)
                  THEN {<<d, <<"s">>, <<"c">>>>, <<d, <<"s">>, <<".", "h">>>>} ELSE {}
    IN  [p \in {<<>>, <<d>>, << <<"f">> >>, << <<"u">> >>} \cup inside \cup below |->
           CASE p = <<>>
                  -> Node("dir", 4096, 12, 493, 4, 0, <<>>, <<d, <<"f">>, <<"u">>>>, TRUE)
             [] p = <<d>>
                  -> Node("dir", 4096, 11, 493, 3, 7, <<>>, dnames, TRUE)
             [] p = << <<"f">> >>
                  -> Node("reg", 2048, 12, 420, 1, 7, <<>>, <<>>, TRUE)
             [] p = << <<"u">> >>
                  -> Node("dir", 4096, 12, 0, 2, 0, <<>>, <<>>, FALSE)
             [] p = <<d, <<"a">>>>
                  -> Node("reg", 5, 11, 420, 1, 7, <<>>, <<>>, TRUE)
             [] p = <<d, <<"b">>>>
                  -> Node("reg", 5, 12, 493, 1, 0, <<>>, <<>>, TRUE)
             [] p = <<d, <<".", "h">>>>
                  -> Node("reg", 2048, 12, 420, 12, 7, <<>>, <<>>, TRUE)
             [] p = <<d, <<"s">>>>
                  -> Node("dir", 4096, 5, 493, 2, 7, <<>>, << <<"c">>, <<".", "h">> >>, TRUE)
             [] p = <<d, <<"l">>>>
                  -> Node("lnk", 4, 12, 511, 1, 7, <<d, <<"gone">>>>, <<>>, TRUE)
             [] p = <<d, <<"s">>, <<"c">>>>
                  -> Node("reg", 7, 12, 420, 1, 7, <<>>, <<>>, TRUE)
             [] p = <<d, <<"s">>, <<".", "h">>>>
                  -> Node("reg", 0, 12, 420, 1, 7, <<>>, <<>>, TRUE)]

Names == {<<"a">>, <<"b">>, <<".", "h">>, <<"s">>, <<"l">>, <<"g">>}

TopPaths == {<< <<"d">> >>, << <<"f">> >>, << <<"u">> >>, << <<"x">> >>}

Flags == {"-a", "-l", "-H", "-d", "-R", "-1", "-C", "-r", "-S", "-t",
          "--color=never", "--color=always"}

SortFlags == {"-a", "-r", "-S", "-t"}

GridFlags == {"-a", "-C"}

FlagSets ==
    {F \in SUBSET Flags :
        Cardinality(F) <= MaxFlags /\ ~({"--color=never", "--color=always"} \subseteq F)}

SizeInputs == (0..MaxSize) \cup {a * 104858 : a \in 10..MaxMegaTenths}
                           \cup {1024 * 1024, 10 * 1024 * 1024}

ModeInputs == 0..(16 * 4096 - 1)

NoArgs == [flags |-> {}, paths |-> <<>>]

Idle ==
    /\ ret = NoRet
    /\ options = parse_args(NoArgs)
    /\ files = <<>>
    /\ i = 0
    /\ exit_code = 0
    /\ out = <<>>
    /\ err = <<>>
    /\ log = <<>>

\* ls FLAGS PATHS in the working directory
InitMain ==
    /\ pc = "start" /\ fn = "main"
    /\ in_size = 0 /\ in_human = FALSE /\ in_mode = 0
    /\ Idle
    /\ term_width = TermWidth

\* any command line over d, f, u and x
Init ==
    /\ InitMain
    /\ args \in [flags : FlagSets, paths : Arrangements(TopPaths, MaxArgs)]
    /\ fs = Tree(<< <<"b">>, <<".", "h">>, <<"a">>, <<"s">> >>)
    /\ isatty \in BOOLEAN

\* ls FLAGS d, for any contents of d
InitDir ==
    /\ InitMain
    /\ args \in [flags : FlagSets, paths : {<< << <<"d">> >> >>}]
    /\ fs \in {Tree(dnames) : dnames \in Arrangements(Names, MaxEntries)}
    /\ isatty \in BOOLEAN

\* ls with any sort options on d, for any contents of d
InitSort ==
    /\ InitMain
    /\ args \in [flags : SUBSET SortFlags, paths : {<< << <<"d">> >> >>}]
    /\ fs \in {Tree(dnames) : dnames \in Arrangements(Names, MaxSorted)}
    /\ isatty = FALSE

\* ls d or ls -C d, for any contents of d and any terminal, narrow or wide
InitGrid ==
    /\ pc = "start" /\ fn = "main"
    /\ in_size = 0 /\ in_human = FALSE /\ in_mode = 0
    /\ Idle
    /\ term_width \in 1..(2 * TermWidth)
    /\ args \in [flags : SUBSET GridFlags, paths : {<< << <<"d">> >> >>}]
    /\ fs \in {Tree(dnames) : dnames \in Arrangements(Names, MaxGrid)}
    /\ isatty \in BOOLEAN

InitSize ==
    /\ pc = "call" /\ fn = "format_size"
    /\ in_size \in SizeInputs /\ in_human \in BOOLEAN /\ in_mode = 0
    /\ Idle
    /\ args = NoArgs /\ fs = Tree(<<>>) /\ isatty = FALSE /\ term_width = TermWidth

InitMode ==
    /\ pc = "call" /\ fn = "format_mode"
    /\ in_size = 0 /\ in_human = FALSE /\ in_mode \in ModeInputs
    /\ Idle
    /\ args = NoArgs /\ fs = Tree(<<>>) /\ isatty = FALSE /\ term_width = TermWidth

Next == MainStart \/ MainMissing \/ MainListDirectory \/ MainSingle \/ MainReturn

NextDir == MainStart \/ MainListDirectory \/ MainSingle \/ MainReturn

NextSort == MainStart \/ MainListDirectory \/ MainReturn

NextGrid == MainStart \/ MainListDirectory \/ MainReturn

NextSize == CallFormatSize

NextMode == CallFormatMode

Spec     == Init /\ [][Next]_vars
SpecDir  == InitDir /\ [][NextDir]_vars
SpecSort == InitSort /\ [][NextSort]_vars
SpecGrid == InitGrid /\ [][NextGrid]_vars
SpecSize == InitSize /\ [][NextSize]_vars
SpecMode == InitMode /\ [][NextMode]_vars

\* ls -R with any sort options on d, one entry per line or in long format,
\* for any contents of d
RecFlags ==
    {F \cup L \cup {"-R"} : F \in SUBSET {"-a", "-r", "-S", "-t"}, L \in {{"-1"}, {"-l"}}}

InitRec ==
    /\ InitMain
    /\ args \in [flags : RecFlags, paths : {<< << <<"d">> >> >>}]
    /\ fs \in {Tree(dnames) : dnames \in Arrangements(Names, MaxEntries)}
    /\ isatty \in BOOLEAN

NextRec == MainStart \/ MainListDirectory \/ MainReturn

SpecRec == InitRec /\ [][NextRec]_vars

\* A working directory for ls -R with symbolic links.  It holds the
\* directory d and the file f; x does not exist.  Of the names d may hold,
\* s is a directory that holds c, e a symbolic link to s, B a symbolic link
\* to d itself (a cycle: d/B/B/...) and h a symbolic link to itself, which
\* no lookup can resolve.
LinkNames == {<<"s">>, <<"e">>, <<"B">>, <<"h">>}

LinkTree(dnames) ==
    LET d == <<"d">>
        inside == {<<d, n>> : n \in Range(dnames)}
        below  == IF <<"s">> \in Range(dnames) THEN {<<d, <<"s">>, <<"c">>>>} ELSE {}
    IN  [p \in {<<>>, <<d>>, << <<"f">> >>} \cup inside \cup below |->
           CASE p = <<>>
                  -> Node("dir", 4096, 12, 493, 3, 0, <<>>, <<d, <<"f">>>>, TRUE)
             [] p = <<d>>
                  -> Node("dir", 4096, 11, 493, 3, 7, <<>>, dnames, TRUE)
             [] p = << <<"f">> >>
                  -> Node("reg", 2048, 12, 420, 1, 7, <<>>, <<>>, TRUE)
             [] p = <<d, <<"s">>>>
                  -> Node("dir", 4096, 5, 493, 2, 7, <<>>, << <<"c">> >>, TRUE)
             [] p = <<d, <<"s">>, <<"c">>>>
                  -> Node("reg", 7, 12, 420, 1, 7, <<>>, <<>>, TRUE)
             [] p = <<d, <<"e">>>>
                  -> Node("lnk", 1, 12, 511, 1, 7, <<d, <<"s">>>>, <<>>, TRUE)
             [] p = <<d, <<"B">>>>
                  -> Node("lnk", 1, 12, 511, 1, 7, <<d>>, <<>>, TRUE)
             [] p = <<d, <<"h">>>>
                  -> Node("lnk", 1, 12, 511, 1, 7, <<d, <<"h">>>>, <<>>, TRUE)]

LinkFlags == {F \cup {"-R"} : F \in SUBSET {"-a", "-1", "-l"}}

LinkPaths == {<< <<"d">> >>, << <<"f">> >>, << <<"x">> >>}

\* ls -R FLAGS PATHS over a tree with symbolic links
InitLinks ==
    /\ InitMain
    /\ args \in [flags : LinkFlags, paths : Arrangements(LinkPaths, MaxEntries)]
    /\ fs \in {LinkTree(dnames) : dnames \in Arrangements(LinkNames, MaxEntries)}
    /\ isatty \in BOOLEAN

\* main is sequential and waits for nothing: a step of the loop over the
\* paths that can be taken is taken.  Every step changes pc or i.  The
\* weak fairness of MainListDirectory is written out, with the guard of the
\* action for its enabling condition.
pos == <<pc, i>>

CanListDirectory ==
    /\ pc = "loop"
    /\ i < Len(files)
    /\ os_path_exists(CurrentPath)
    /\ os_path_isdir(CurrentPath) /\ ~options.directory

Sequential ==
    /\ WF_pos(MainStart)
    /\ WF_pos(MainMissing)
    /\ WF_pos(MainSingle)
    /\ WF_pos(MainReturn)
    /\ ([]<>~CanListDirectory \/ []<><<MainListDirectory>>_pos)

SpecLinks == InitLinks /\ [][Next]_vars /\ Sequential

-----------------------------------------------------------------------------
(* The tail command (src/src/commands/tail.py), by lines.  A path is a     *)
(* text; fs maps the path of every file that can be opened to its lines,   *)
(* each a text that ends with "\n"; the path "-" is standard input.  The   *)
(* command lines modelled give neither -c nor -f.                          *)

\* the most lines in the file tail reads
MaxLines == 12
\* the largest number given to -n
MaxCount == 12

None == <<"None">>

Stdin == <<"-">>

\* int(text) for a text of digits with at most one sign; ok = FALSE stands
\* for a raised ValueError
RECURSIVE int_digits(_)
int_digits(text) ==
    IF text = <<>> THEN 0
    ELSE 10 * int_digits(SubSeq(text, 1, Len(text) - 1))
         + (CHOOSE v \in 0..9 : Digit[v + 1] = text[Len(text)])

python_int(text) ==
    LET signed == text # <<>> /\ text[1] \in {"+", "-"}
        digits == IF signed THEN Tail(text) ELSE text
    IN  IF digits = <<>> \/ \E k \in 1..Len(digits) : digits[k] \notin Range(Digit)
        THEN [ok |-> FALSE, value |-> 0]
        ELSE [ok |-> TRUE,
              value |-> IF signed /\ text[1] = "-" THEN 0 - int_digits(digits)
                        ELSE int_digits(digits)]

\* tail.py 15-62
tail_parse_args(a) ==
    [files   |-> a.paths,
     lines   |-> IF a.n = None THEN <<"1", "0">> ELSE a.n,
     bytes   |-> None,
     follow  |-> FALSE,
     quiet   |-> "-q" \in a.flags,
     verbose |-> "-v" \in a.flags]

\* tail.py 65-96
get_starting_position(option_value, file_size) ==
    IF option_value # <<>> /\ option_value[1] = "+"
    THEN LET r == python_int(Tail(option_value))
             position == r.value - 1
         IN  IF ~r.ok THEN 0 - 10
             ELSE IF position < 0 THEN 0 ELSE position
    ELSE LET r == python_int(option_value)
             count == IF r.value < 0 THEN 0 - r.value ELSE r.value
         IN  IF ~r.ok THEN 0 - 10 ELSE 0 - count

\* open(file_path) and readlines(); ok = FALSE stands for a raised IOError
readlines(file_path) ==
    IF file_path \in DOMAIN fs
    THEN [ok |-> TRUE, lines |-> fs[file_path].lines, strerror |-> ""]
    ELSE [ok |-> FALSE, lines |-> <<>>, strerror |-> "No such file or directory"]

\* tail.py 99-135, for a file that can be read
tail_file_by_lines(file_path, start_line, max_lines) ==
    LET lines == readlines(file_path).lines
        total_lines == Len(lines)
        start_index ==
            IF start_line < 0
            THEN (IF total_lines + start_line > 0 THEN total_lines + start_line ELSE 0)
            ELSE (IF start_line < total_lines THEN start_line ELSE total_lines)
        end_index ==
            IF max_lines # None
            THEN (IF start_index + max_lines < total_lines
                  THEN start_index + max_lines ELSE total_lines)
            ELSE total_lines
    IN  SubSeq(lines, start_index + 1, end_index)

TextLine(text) == Line("text", <<text>>)

\* tail.py 232-247: the header of a file
TailHeader(file_path, opts, file_number, total_files) ==
    LET print_header == IF opts.quiet THEN FALSE
                        ELSE IF ~opts.verbose THEN total_files > 1
                        ELSE TRUE
        file_desc == IF file_path = Stdin
                     THEN <<"standard input">> ELSE file_path
    IN  IF print_header
        THEN (IF file_number > 1 THEN <<BlankLine>> ELSE <<>>)
             \o <<Line("header", << <<"==> ">> \o file_desc \o <<" <==">> >>)>>
        ELSE <<>>

\* tail.py 219-291: the exit code and the lines written
process_file(file_path, opts, file_number, total_files) ==
    LET start_line == get_starting_position(opts.lines, 0)
        lines == tail_file_by_lines(file_path, start_line, None)
    IN  IF ~readlines(file_path).ok
        THEN Returned(1, TailHeader(file_path, opts, file_number, total_files),
                      <<Line("error", << <<"tail: ">> \o file_path \o <<": ">>
                                          \o <<readlines(file_path).strerror>> >>)>>)
        ELSE Returned(0, TailHeader(file_path, opts, file_number, total_files)
                         \o [k \in 1..Len(lines) |-> TextLine(lines[k])],
                      <<>>)

\* tail.py 296-303
TailStart ==
    /\ pc = "start" /\ fn = "tail"
    /\ options' = tail_parse_args(args)
    /\ files' = IF args.paths = <<>> THEN <<Stdin>> ELSE args.paths
    /\ exit_code' = 0
    /\ i' = 0
    /\ pc' = "loop"
    /\ UNCHANGED <<fn, in_size, in_human, in_mode, ret, fs, isatty, term_width,
                   out, err, log, args>>

\* tail.py 306-314: one round of the loop over the files
TailProcessFile ==
    /\ pc = "loop" /\ fn = "tail"
    /\ i < Len(files)
    /\ LET result == process_file(files[i + 1], options, i + 1, Len(files))
       IN  /\ out' = out \o result.out
           /\ err' = err \o result.err
           /\ exit_code' = IF result.code # 0 THEN result.code ELSE exit_code
           /\ log' = Append(log, [path |-> files[i + 1], code |-> result.code,
                                  out |-> result.out, err |-> result.err])
    /\ i' = i + 1
    /\ UNCHANGED <<pc, fn, in_size, in_human, in_mode, ret, options, files, fs,
                   isatty, term_width, args>>

\* tail.py 316: return exit_code
TailReturn ==
    /\ pc = "loop" /\ fn = "tail"
    /\ i = Len(files)
    /\ ret' = exit_code
    /\ pc' = "done"
    /\ UNCHANGED <<fn, in_size, in_human, in_mode, options, files, fs, isatty,
                   term_width, i, exit_code, out, err, log, args>>

\* line k of the file
FileLine(k) == <<"L">> \o str(k) \o <<"\n">>

T == <<"t">>
X == <<"x">>

\* the file t has n lines, standard input has one, x cannot be opened
TextFiles(n) ==
    [p \in {T, Stdin} |->
        IF p = T THEN [lines |-> [k \in 1..n |-> FileLine(k)]]
        ELSE [lines |-> <<FileLine(1)>>]]

\* the values given to -n: N, +N, a negative number, and two that are no number
LineOptions ==
    {None}
    \cup {str(n) : n \in 0..MaxCount}
    \cup {<<"+">> \o str(n) : n \in 0..MaxCount}
    \cup {<<"-", "2">>, <<"x">>, <<"+">>}

InitTail ==
    /\ pc = "start" /\ fn = "tail"
    /\ in_size = 0 /\ in_human = FALSE /\ in_mode = 0
    /\ ret = NoRet /\ files = <<>> /\ i = 0 /\ exit_code = 0
    /\ out = <<>> /\ err = <<>> /\ log = <<>>
    /\ isatty = FALSE /\ term_width = TermWidth
    /\ args \in [n : LineOptions, flags : SUBSET {"-q", "-v"},
                 paths : {<<>>, <<T>>, <<T, X>>, <<X, T>>}]
    /\ options = tail_parse_args([n |-> None, flags |-> {}, paths |-> <<>>])
    /\ fs \in {TextFiles(n) : n \in 0..MaxLines}

NextTail == TailStart \/ TailProcessFile \/ TailReturn

SpecTail == InitTail /\ [][NextTail]_vars

-----------------------------------------------------------------------------
(* The wc command (src/src/commands/wc.py).  Paths and files are as for    *)
(* tail; the files hold ASCII text, one byte to the character.  The log    *)
(* keeps what count_file returned for each file processed so far, from     *)
(* which the totals and any_success of wc_files are read.                  *)

\* wc.py 13-59
wc_parse_args(a) ==
    [files           |-> a.paths,
     bytes           |-> "-c" \in a.flags,
     chars           |-> "-m" \in a.flags,
     lines           |-> "-l" \in a.flags,
     words           |-> "-w" \in a.flags,
     max_line_length |-> "-L" \in a.flags]

Whitespace == {" ", "\n", "\t"}

\* len(line.split()): the number of runs of characters that are not whitespace
RECURSIVE split_len(_, _)
split_len(line, in_word) ==
    IF line = <<>> THEN 0
    ELSE IF Head(line) \in Whitespace THEN split_len(Tail(line), FALSE)
    ELSE (IF in_word THEN 0 ELSE 1) + split_len(Tail(line), TRUE)

\* line.rstrip('\n')
RECURSIVE rstrip_newline(_)
rstrip_newline(line) ==
    IF line # <<>> /\ line[Len(line)] = "\n"
    THEN rstrip_newline(SubSeq(line, 1, Len(line) - 1)) ELSE line

RECURSIVE Sum(_)
Sum(ns) == IF ns = <<>> THEN 0 ELSE Head(ns) + Sum(Tail(ns))

\* wc.py 62-118: the counts, or None (ok = FALSE) and the line written to
\* stderr
count_file(file_path) ==
    LET f == readlines(file_path)
        chars == Sum([k \in 1..Len(f.lines) |-> Len(f.lines[k])])
    IN  IF ~f.ok
        THEN [ok |-> FALSE, counts |-> None,
              err |-> <<Line("error", << <<"wc: ">> \o file_path \o <<": ">>
                                          \o <<f.strerror>> >>)>>]
        ELSE [ok |-> TRUE, counts |->
                 [lines |-> Len(f.lines),
                  words |-> Sum([k \in 1..Len(f.lines) |-> split_len(f.lines[k], FALSE)]),
                  chars |-> chars,
                  bytes |-> chars,
                  max_line_length |->
                      MaxOf(<<0>> \o [k \in 1..Len(f.lines) |->
                                         Len(rstrip_newline(f.lines[k]))])],
              err |-> <<>>]

\* wc.py 121-168
format_output(file_counts, file_path, opts) ==
    LET default == ~(opts.lines \/ opts.words \/ opts.bytes \/ opts.chars
                        \/ opts.max_line_length)
        show_lines == opts.lines \/ default
        show_words == opts.words \/ default
        show_bytes == opts.bytes \/ default
        file_display == IF file_path = Stdin THEN <<>> ELSE <<" ">> \o file_path
    IN  (IF show_lines THEN PadInt(file_counts.lines, 8) ELSE <<>>)
        \o (IF show_words THEN PadInt(file_counts.words, 8) ELSE <<>>)
        \o (IF opts.chars THEN PadInt(file_counts.chars, 8) ELSE <<>>)
        \o (IF show_bytes THEN PadInt(file_counts.bytes, 8) ELSE <<>>)
        \o (IF opts.max_line_length THEN PadInt(file_counts.max_line_length, 8) ELSE <<>>)
        \o file_display

\* wc.py 227-236: main up to the call of wc_files
WcStart ==
    /\ pc = "start" /\ fn = "wc"
    /\ options' = wc_parse_args(args)
    /\ files' = IF args.paths = <<>> THEN <<Stdin>> ELSE args.paths
    /\ i' = 0
    /\ pc' = "loop"
    /\ UNCHANGED <<fn, in_size, in_human, in_mode, ret, fs, isatty, term_width,
                   exit_code, out, err, log, args>>

\* wc.py 193-207: one round of the loop of wc_files
WcCountFile ==
    /\ pc = "loop" /\ fn = "wc"
    /\ i < Len(files)
    /\ LET file_counts == count_file(files[i + 1])
       IN  /\ err' = err \o file_counts.err
           /\ out' = IF ~file_counts.ok THEN out
                     ELSE Append(out, Line("count",
                             <<format_output(file_counts.counts, files[i + 1], options)>>))
           /\ log' = Append(log, [path |-> files[i + 1], ok |-> file_counts.ok,
                                  counts |-> file_counts.counts])
    /\ i' = i + 1
    /\ UNCHANGED <<pc, fn, in_size, in_human, in_mode, ret, options, files, fs,
                   isatty, term_width, exit_code, args>>

\* the files counted so far
Counted == SelectSeq(log, LAMBDA e : e.ok)

\* any_success = True on the same round as the print
any_success == Counted # <<>>

\* wc.py 209-222: the totals and the return value
WcFinish ==
    /\ pc = "loop" /\ fn = "wc"
    /\ i = Len(files)
    /\ LET total_counts ==
               [lines |-> Sum([k \in 1..Len(Counted) |-> Counted[k].counts.lines]),
                words |-> Sum([k \in 1..Len(Counted) |-> Counted[k].counts.words]),
                chars |-> Sum([k \in 1..Len(Counted) |-> Counted[k].counts.chars]),
                bytes |-> Sum([k \in 1..Len(Counted) |-> Counted[k].counts.bytes]),
                max_line_length |->
                    MaxOf(<<0>> \o [k \in 1..Len(Counted) |->
                                       Counted[k].counts.max_line_length])]
       IN  out' = IF Len(files) > 1 /\ any_success
                  THEN Append(out, Line("count",
                          <<format_output(total_counts, <<"total">>, options)>>))
                  ELSE out
    /\ ret' = IF any_success THEN 0 ELSE 1
    /\ pc' = "done"
    /\ UNCHANGED <<fn, in_size, in_human, in_mode, options, files, fs, isatty,
                   term_width, i, exit_code, err, log, args>>

U == <<"u">>

\* t and standard input as for tail; u holds two lines of three words, the
\* last line without a newline
WcTextFiles(n) ==
    [p \in {T, U, Stdin} |->
        IF p = U THEN [lines |-> << <<"a", " ", "b", "\n">>, <<"\t", "c", "c">> >>]
        ELSE TextFiles(n)[p]]

WcFlags == {"-c", "-m", "-l", "-w", "-L"}

InitWc ==
    /\ pc = "start" /\ fn = "wc"
    /\ in_size = 0 /\ in_human = FALSE /\ in_mode = 0
    /\ ret = NoRet /\ files = <<>> /\ i = 0 /\ exit_code = 0
    /\ out = <<>> /\ err = <<>> /\ log = <<>>
    /\ isatty = FALSE /\ term_width = TermWidth
    /\ args \in [flags : {F \in SUBSET WcFlags : Cardinality(F) <= MaxFlags},
                 paths : Arrangements({T, U, X}, MaxArgs)]
    /\ options = wc_parse_args([flags |-> {}, paths |-> <<>>])
    /\ fs \in {WcTextFiles(n) : n \in 0..MaxLines}

NextWc == WcStart \/ WcCountFile \/ WcFinish

SpecWc == InitWc /\ [][NextWc]_vars

-----------------------------------------------------------------------------
(* Properties.  Helpers that read the printed output back.                 *)

Done == pc = "done"

DigitValue(c) == CHOOSE v \in 0..9 : Digit[v + 1] = c

IsDigits(text) == Len(text) >= 1 /\ \A k \in 1..Len(text) : text[k] \in Range(Digit)

\* the number a decimal numeral denotes
RECURSIVE Numeral(_)
Numeral(text) ==
    IF Len(text) = 1 THEN DigitValue(text[1])
    ELSE 10 * Numeral(SubSeq(text, 1, Len(text) - 1)) + DigitValue(text[Len(text)])

\* a decimal numeral as Python prints an int: digits, no leading zero
IsDecimalOf(text, n) ==
    /\ IsDigits(text)
    /\ Numeral(text) = n
    /\ (Len(text) > 1 => text[1] # "0")

\* the words of a text, split at spaces
RECURSIVE Words(_, _)
Words(text, word) ==
    IF text = <<>> THEN (IF word = <<>> THEN <<>> ELSE <<word>>)
    ELSE IF Head(text) = " "
         THEN (IF word = <<>> THEN <<>> ELSE <<word>>) \o Words(Tail(text), <<>>)
         ELSE Words(Tail(text), Append(word, Head(text)))

\* the names a printed line shows, colour removed
NamesOf(line) ==
    IF line.kind \in {"entry", "long", "row"}
    THEN Range(Words(strip_ansi_codes(line.cols[Len(line.cols)]), <<>>))
    ELSE {}

NamesIn(lines) == UNION {NamesOf(lines[k]) : k \in 1..Len(lines)}

\* the lines up to the first blank line
TopBlock(lines) ==
    LET blanks == {k \in 1..Len(lines) : lines[k].kind = "blank"}
    IN  IF blanks = {} THEN lines
        ELSE SubSeq(lines, 1, (CHOOSE k \in blanks : \A j \in blanks : k <= j) - 1)

D == << <<"d">> >>

\* the text of the message for a path that does not exist
NoSuchFile(path) ==
    <<"ls: cannot access '">> \o PathText(path) \o <<"': ", "No such file or directory">>

\* the paths of the command line that do not exist, and those that are
\* directories os.listdir refuses to enumerate
Missing(path) == ~os_path_exists(path)

Unlistable(path) ==
    os_path_isdir(path) /\ ~options.directory /\ ~os_listdir(path).ok

-----------------------------------------------------------------------------
\* C1: listing a path that does not exist makes main return 1 and write
\* "ls: cannot access 'PATH': No such file or directory" with that path to
\* the error stream, and nothing is listed for the path: the step that
\* handles it prints no entry, only the separator and header of the argument.
C1_MissingPathReported ==
    /\ Done =>
         \A k \in 1..Len(files) :
            Missing(files[k]) =>
               /\ ret = 1
               /\ \E e \in 1..Len(err) :
                     err[e].kind = "error" /\ err[e].cols = <<NoSuchFile(files[k])>>
               /\ log[k].out = <<>>
               /\ (Len(files) = 1 => out = <<>>)
    /\ \A k \in 1..Len(out) : NamesOf(out[k]) \cap {<<"x">>} = {}

C1_Witness ==
    /\ Done /\ ret = 1
    /\ Len(files) = 3 /\ Missing(files[2])
    /\ Len(err) = 1

-----------------------------------------------------------------------------
\* C2: a path that is missing, or a directory that cannot be enumerated, does
\* not stop the loop: every path is handled, in command-line order; every
\* path that exists and can be enumerated is listed (its lines show the file
\* itself, or what the directory holds) whatever came before it; and once a
\* path has failed the exit code is 1 and stays 1.
Segment(k) ==
    (IF k > 1 THEN <<BlankLine>> ELSE <<>>)
    \o (IF Len(files) > 1 /\ ~options.directory
        THEN <<Line("header", <<PathText(files[k]) \o <<":">>>>)>> ELSE <<>>)
    \o log[k].out

\* what the listing of an existing, listable argument must show
Shows(path, lines) ==
    IF path = D /\ ~options.directory
    THEN {<<"a">>, <<"b">>, <<"s">>} \subseteq NamesIn(lines)
    ELSE IF path = <<Dot>> /\ ~options.directory
    THEN {<<"d">>, <<"f">>, <<"u">>} \subseteq NamesIn(lines)
    ELSE basename(path) \in NamesIn(lines)

C2_PartialSuccess ==
    /\ pc \in {"loop", "done"} =>
         /\ Len(log) = i
         /\ \A k \in 1..i : log[k].path = files[k]
         /\ out = Flatten([k \in 1..i |-> Segment(k)])
         /\ \A k \in 1..i :
               ~Missing(files[k]) /\ ~Unlistable(files[k]) => Shows(files[k], log[k].out)
         /\ (\E k \in 1..i : Missing(files[k]) \/ Unlistable(files[k])) => exit_code = 1
    /\ Done => i = Len(files) /\ ret = exit_code

C2_Witness ==
    /\ Done /\ ret = 1
    /\ Len(files) = 3
    /\ Unlistable(files[1]) /\ Missing(files[2]) /\ files[3] = D
    /\ <<"a">> \in NamesIn(log[3].out)

-----------------------------------------------------------------------------
\* C3: if the stat of a single entry of a listed directory fails, the failure
\* is reported on the error stream and main returns 1.
EntryFailures ==
    {n \in Range(FilterHidden(fs[D].names, options)) :
        ~os_lstat(path_join(D, n)).ok}

C3_EntryFailureCounts ==
    (Done /\ log[1].what = "directory" /\ EntryFailures # {})
        => (ret = 1 /\ err # <<>>)

-----------------------------------------------------------------------------
\* C4: the hidden-entry filter.  Of the names of the listed directory whose
\* metadata can be read, one that starts with "." is printed if and only if
\* -a is set and one that does not is printed with and without -a; no printed
\* name starts with "." unless -a is set, "." and ".." included; the block
\* printed for a subdirectory under -R filters its names in the same way.
Readable(directory, n) == os_stat(path_join(directory, n)).ok

SubdirShown == \E k \in 1..Len(out) : out[k] = Line("header", <<<<"d", "/", "s", ":">>>>)

SubdirLines ==
    LET h == CHOOSE k \in 1..Len(out) : out[k] = Line("header", <<<<"d", "/", "s", ":">>>>)
    IN  SubSeq(out, h + 1, Len(out))

C4_HiddenFilter ==
    (Done /\ log[1].what = "directory") =>
        /\ \A n \in Range(fs[D].names) :
              Readable(D, n) =>
                 (n \in NamesIn(TopBlock(out)) <=> (n[1] # "." \/ "-a" \in args.flags))
        /\ \A n \in NamesIn(out) : n[1] = "." => "-a" \in args.flags
        /\ SubdirShown =>
              /\ <<"c">> \in NamesIn(SubdirLines)
              /\ <<".", "h">> \in NamesIn(SubdirLines) <=> "-a" \in args.flags

C4_Witness ==
    /\ Done /\ log[1].what = "directory"
    /\ "-a" \in args.flags
    /\ fs[D].names = << <<".", "h">>, <<"a">> >>
    /\ {Dot, DotDot, <<".", "h">>, <<"a">>} \subseteq NamesIn(TopBlock(out))

-----------------------------------------------------------------------------
\* C5: human-readable sizes.  Below 1024 the size is printed as the integer,
\* with no decimal point and no suffix.  From 1024 on it is printed in the
\* largest unit not above it, with the unit's letter: a value below 10 with
\* exactly one decimal (the value rounded to tenths), except that exactly
\* 1.0 is printed "1"; a value of 10 or more truncated to an integer.
\* 0 -> 0, 1023 -> 1023, 1024 -> 1K, 1536 -> 1.5K, 1048576 -> 1M,
\* 10485760 -> 10M.
UnitOf(n) == IF n < 1024 * 1024 THEN 1024 ELSE 1024 * 1024

LetterOf(n) == IF n < 1024 * 1024 THEN "K" ELSE "M"

Distance(a, b) == IF a >= b THEN a - b ELSE b - a

OneDecimalOf(body, n, unit) ==
    LET whole == SubSeq(body, 1, Len(body) - 2)
        tenths == 10 * Numeral(whole) + DigitValue(body[Len(body)])
    IN  /\ Len(body) >= 3
        /\ body[Len(body) - 1] = "."
        /\ body[Len(body)] \in Range(Digit)
        /\ IsDigits(whole) /\ (Len(whole) > 1 => whole[1] # "0")
        /\ 2 * Distance(10 * n, tenths * unit) <= unit

C5_HumanReadable ==
    (Done /\ fn = "format_size" /\ in_human) =>
        /\ in_size < 1024 => IsDecimalOf(ret, in_size)
        /\ in_size >= 1024 =>
              LET body == SubSeq(ret, 1, Len(ret) - 1)
              IN  /\ ret[Len(ret)] = LetterOf(in_size)
                  /\ in_size = UnitOf(in_size) => body = <<"1">>
                  /\ (in_size > UnitOf(in_size) /\ in_size < 10 * UnitOf(in_size))
                        => OneDecimalOf(body, in_size, UnitOf(in_size))
                  /\ in_size >= 10 * UnitOf(in_size)
                        => IsDecimalOf(body, in_size \div UnitOf(in_size))
        /\ in_size = 0 => ret = <<"0">>
        /\ in_size = 1023 => ret = <<"1", "0", "2", "3">>
        /\ in_size = 1024 => ret = <<"1", "K">>
        /\ in_size = 1536 => ret = <<"1", ".", "5", "K">>
        /\ in_size = 1024 * 1024 => ret = <<"1", "M">>
        /\ in_size = 10 * 1024 * 1024 => ret = <<"1", "0", "M">>

C5_Witness ==
    Done /\ fn = "format_size" /\ in_human /\ in_size = 1536
         /\ ret = <<"1", ".", "5", "K">>

-----------------------------------------------------------------------------
\* C6 as claimed: the long-format row of a regular file of 2048 bytes shows
\* the size "2K" under -H.
F == << <<"f">> >>

LongRowsOf2048 ==
    {k \in 1..Len(out) :
        out[k].kind = "long" /\ NamesOf(out[k]) \subseteq {<<"f">>, <<".", "h">>}}

SizeColumn(line) == SelectSeq(line.cols[5], LAMBDA c : c # " ")

C6_SizeColumn2K ==
    (Done /\ options.l /\ options.human_readable) =>
        \A k \in LongRowsOf2048 : SizeColumn(out[k]) = <<"2", "K">>

\* C6 as amended: the long-format row of a regular file of 2048 bytes shows
\* the size "2.0K" under -H.
C6_SizeColumn2Point0K ==
    (Done /\ options.l /\ options.human_readable) =>
        \A k \in LongRowsOf2048 : SizeColumn(out[k]) = <<"2", ".", "0", "K">>

C6_Witness ==
    /\ Done /\ args.flags = {"-l", "-H"} /\ files = <<F>>
    /\ LongRowsOf2048 = {1}
    /\ os_lstat(F).st_size = 2048 /\ format_mode(os_lstat(F).st_mode)[1] = "-"

-----------------------------------------------------------------------------
\* C7: without human_readable, format_size returns exactly the decimal digits
\* of the size: no unit suffix, no rescaling.
C7_RawSize ==
    (Done /\ fn = "format_size" /\ ~in_human) => IsDecimalOf(ret, in_size)

C7_Witness ==
    Done /\ fn = "format_size" /\ ~in_human /\ in_size = 1024
         /\ ret = <<"1", "0", "2", "4">>

-----------------------------------------------------------------------------
\* C8: the direction of the sort.  By name the printed names ascend in
\* lexicographic order, and descend under -r; under -S the sizes never
\* increase down the listing, and never decrease under -r; under -t the
\* modification times never increase (newest first), and never decrease
\* under -r; with -S and -t together the order is that of -t.
Printed == [k \in 1..Len(out) |-> strip_ansi_codes(out[k].cols[Len(out[k].cols)])]

SizeOf(n)  == os_stat(path_join(D, n)).st_size
MtimeOf(n) == os_stat(path_join(D, n)).st_mtime

C8_SortDirection ==
    Done =>
        \A k \in 1..(Len(Printed) - 1) :
            IF "-t" \in args.flags
            THEN IF "-r" \in args.flags
                 THEN MtimeOf(Printed[k]) <= MtimeOf(Printed[k + 1])
                 ELSE MtimeOf(Printed[k]) >= MtimeOf(Printed[k + 1])
            ELSE IF "-S" \in args.flags
            THEN IF "-r" \in args.flags
                 THEN SizeOf(Printed[k]) <= SizeOf(Printed[k + 1])
                 ELSE SizeOf(Printed[k]) >= SizeOf(Printed[k + 1])
            ELSE IF "-r" \in args.flags
                 THEN StrLess(Printed[k + 1], Printed[k])
                 ELSE StrLess(Printed[k], Printed[k + 1])

C8_Witness ==
    /\ Done /\ args.flags = {"-S", "-t"}
    /\ Len(Printed) = 3
    /\ MtimeOf(Printed[1]) > MtimeOf(Printed[3])
    /\ SizeOf(Printed[1]) < SizeOf(Printed[3])

-----------------------------------------------------------------------------
\* C9: for every sort key the listing printed under -r is exactly the reverse
\* of the listing the same options print without -r.
Reverse(s) == [k \in 1..Len(s) |-> s[Len(s) + 1 - k]]

C9_ReversalIdentity ==
    (Done /\ options.reverse) =>
        Printed = Reverse(SortEntries(D, FilterHidden(fs[D].names, options),
                                      [options EXCEPT !.reverse = FALSE]))

-----------------------------------------------------------------------------
\* C10: format_mode returns ten characters, the first of them one of
\* - d l p s b c: d for a directory, - for a regular file.
C10_ModeString ==
    (Done /\ fn = "format_mode") =>
        /\ Len(ret) = 10
        /\ ret[1] \in {"-", "d", "l", "p", "s", "b", "c"}
        /\ (in_mode \div 4096) % 16 = 4 => ret[1] = "d"
        /\ (in_mode \div 4096) % 16 = 8 => ret[1] = "-"

C10_Witness ==
    Done /\ fn = "format_mode" /\ in_mode = 16384 + 2048 + 493
         /\ ret = <<"d", "r", "w", "s", "r", "-", "x", "r", "-", "x">>

-----------------------------------------------------------------------------
\* bit b (counted from 0) of the mode passed to format_mode is set
ModeBit(b) == (in_mode \div (2 ^ b)) % 2 = 1

\* the execute slot for execute bit x and special bit sp
ExecSlot(x, sp, lower, upper) ==
    IF ModeBit(sp) THEN (IF ModeBit(x) THEN lower ELSE upper)
    ELSE (IF ModeBit(x) THEN "x" ELSE "-")

\* C11: in the string format_mode returns, the owner, group and other
\* execute slots read s/S, s/S and t/T under setuid, setgid and sticky
\* (lower case with the execute bit, upper case without it) and x or -
\* otherwise; each read and write slot reads r or w exactly when its bit
\* is set and - when it is not.
C11_ExecuteSlots ==
    (Done /\ fn = "format_mode") =>
        /\ ret[2] = (IF ModeBit(8) THEN "r" ELSE "-")
        /\ ret[3] = (IF ModeBit(7) THEN "w" ELSE "-")
        /\ ret[4] = ExecSlot(6, 11, "s", "S")
        /\ ret[5] = (IF ModeBit(5) THEN "r" ELSE "-")
        /\ ret[6] = (IF ModeBit(4) THEN "w" ELSE "-")
        /\ ret[7] = ExecSlot(3, 10, "s", "S")
        /\ ret[8] = (IF ModeBit(2) THEN "r" ELSE "-")
        /\ ret[9] = (IF ModeBit(1) THEN "w" ELSE "-")
        /\ ret[10] = ExecSlot(0, 9, "t", "T")

\* a regular file, mode 7644: all three special bits, no execute bit
C11_Witness ==
    Done /\ fn = "format_mode" /\ in_mode = 32768 + 3584 + 420
         /\ ret = <<"-", "r", "w", "S", "r", "-", "S", "r", "-", "T">>

-----------------------------------------------------------------------------
\* the listing of d was laid out as a grid
GridUsed ==
    /\ Done /\ files = <<D>> /\ log[1].what = "directory"
    /\ ~options.l /\ ~options.one_per_line
    /\ (isatty \/ options.multicolumn)
    /\ out # <<>> /\ \A k \in 1..Len(out) : out[k].kind = "row"

\* the names d shows: those os.listdir returns, hidden ones and "." and ".."
\* only under -a
Listed ==
    {n \in Range(fs[D].names) : n[1] # "." \/ options.all}
        \cup (IF options.all THEN {Dot, DotDot} ELSE {})

VisibleWidth(n) == Len(n)

ColumnWidth ==
    2 + (CHOOSE w \in {VisibleWidth(n) : n \in Listed} :
            \A n \in Listed : VisibleWidth(n) <= w)

\* the cells of a printed row, colour removed
CellsOf(line) == Words(strip_ansi_codes(line.cols[1]), <<>>)

\* C12: in the multi-column layout the number of columns times the column
\* width (the widest visible name plus 2) never exceeds the terminal width,
\* also when the widest name is wider than the terminal.  The columns are
\* counted on the first printed row, which shows no more than were chosen.
C12_WidthBound ==
    GridUsed => Len(CellsOf(out[1])) * ColumnWidth <= term_width

\* C13: in the multi-column layout every entry is printed in exactly one
\* cell of the grid: none is left out and none is printed twice.
AllCells == Flatten([k \in 1..Len(out) |-> CellsOf(out[k])])

C13_GridComplete ==
    GridUsed =>
        /\ Len(AllCells) = Cardinality(Listed)
        /\ \A n \in Listed : Cardinality({j \in 1..Len(AllCells) : AllCells[j] = n}) = 1

\* five entries in three columns: two rows, the second one short
C13_Witness ==
    /\ GridUsed /\ Cardinality(Listed) = 5 /\ term_width = 12
    /\ Len(out) = 2 /\ Len(CellsOf(out[1])) = 3 /\ Len(CellsOf(out[2])) = 2

-----------------------------------------------------------------------------
\* C14: with -d every directory argument is rendered as one entry, the
\* directory itself (a long row under -l, its name otherwise), and nothing
\* it holds is printed, also under -a or -R; an argument that is not a
\* directory is rendered as one entry with and without -d.
OneEntry(k) ==
    /\ log[k].what = "single"
    /\ Len(log[k].out) = 1
    /\ log[k].out[1].kind = (IF options.l THEN "long" ELSE "entry")
    /\ NamesOf(log[k].out[1]) = {basename(files[k])}

C14_DirectoryItself ==
    Done =>
        /\ \A k \in 1..Len(files) :
              (~Missing(files[k]) /\ (options.directory \/ ~os_path_isdir(files[k])))
                  => OneEntry(k)
        /\ options.directory =>
              /\ NamesIn(out) \subseteq {basename(files[k]) : k \in 1..Len(files)}
              /\ \A k \in 1..Len(out) : out[k].kind \in {"entry", "long", "blank"}

C14_Witness ==
    /\ Done /\ args.flags = {"-d", "-R"}
    /\ files = <<D, F>>
    /\ os_listdir(D).names # <<>>
    /\ NamesIn(out) = {<<"d">>, <<"f">>} /\ Len(out) = 3

-----------------------------------------------------------------------------
\* C15: under -R, in every layout and on a terminal or not, what a
\* subdirectory of a listed directory holds is printed after the directory's
\* own entries, behind a blank line and a "path:" header.  Stated for d and
\* its subdirectory s, which holds c.
DS == <<<<"d">>, <<"s">>>>

BlockAt(lines, h) ==
    /\ lines[h - 1] = BlankLine
    /\ lines[h] = HeaderLine(DS)
    /\ <<"s">> \in NamesIn(SubSeq(lines, 1, h - 2))
    /\ <<"c">> \in NamesIn(SubSeq(lines, h + 1, Len(lines)))

C15_RecursiveBlocks ==
    (Done /\ options.recursive /\ ~options.directory) =>
        \A k \in 1..Len(files) :
            (files[k] = D /\ os_path_isdir(DS) /\ ~os_path_islink(DS))
                => \E h \in 2..Len(log[k].out) : BlockAt(log[k].out, h)

-----------------------------------------------------------------------------
\* C16: colour gating.  Whatever the rendering path (long rows, one per
\* line, grid, a path rendered as itself), the output holds an escape
\* sequence only if --color=always was given, or --color=never was not
\* given and standard output is a terminal.
HasEscape(lines) ==
    \E k \in 1..Len(lines) : \E j \in 1..Len(lines[k].cols) :
        Range(lines[k].cols[j]) \cap Escapes # {}

ColourAllowed ==
    \/ "--color=always" \in args.flags
    \/ ("--color=never" \notin args.flags /\ isatty)

C16_ColourGating ==
    \A k \in 1..Len(log) : HasEscape(log[k].out) => ColourAllowed

\* colour in long rows off a terminal, in a grid, and on a path rendered as
\* itself
C16_Witness ==
    /\ Done /\ Len(files) = 1 /\ HasEscape(out)
    /\ \/ args.flags = {"--color=always", "-l"} /\ ~isatty /\ files = <<D>>
       \/ args.flags = {"--color=always", "-1"} /\ ~isatty /\ files = <<D>>
       \/ args.flags = {} /\ isatty /\ files = <<D>> /\ out[1].kind = "row"
       \/ args.flags = {"-d"} /\ isatty /\ files = <<D>>

-----------------------------------------------------------------------------
\* C17: several arguments.  Exactly one blank line separates the output of
\* an argument from that of the argument before it; the output of each
\* argument is preceded by the header "path:" if and only if more than one
\* path was given and -d is not set; a single path gets neither header nor
\* separator.
HeaderWanted == Len(args.paths) > 1 /\ "-d" \notin args.flags

\* the line at which the lines of argument k begin, header included
RECURSIVE StartOf(_)
StartOf(k) ==
    IF k = 1 THEN 1
    ELSE StartOf(k - 1) + (IF HeaderWanted THEN 1 ELSE 0) + Len(log[k - 1].out) + 1

C17_SeparatorsAndHeaders ==
    Done =>
        /\ Len(args.paths) <= 1 => out = log[1].out
        /\ Len(out) = StartOf(Len(files)) - 1 + (IF HeaderWanted THEN 1 ELSE 0)
                         + Len(log[Len(files)].out)
        /\ \A k \in 1..Len(files) :
              LET body == StartOf(k) + (IF HeaderWanted THEN 1 ELSE 0)
              IN  /\ k > 1 => out[StartOf(k) - 1].kind = "blank"
                  /\ HeaderWanted =>
                        out[StartOf(k)] = Line("header", <<PathText(files[k]) \o <<":">>>>)
                  /\ SubSeq(out, body, body + Len(log[k].out) - 1) = log[k].out
                  /\ (~HeaderWanted /\ log[k].out # <<>>) => log[k].out[1].kind # "header"
                  /\ log[k].out # <<>> =>
                        /\ log[k].out[1].kind # "blank"
                        /\ log[k].out[Len(log[k].out)].kind # "blank"

C17_Witness ==
    /\ Done /\ args.flags = {} /\ ~isatty /\ files = <<F, D>>
    /\ out = << Line("header", <<<<"f", ":">>>>), Line("entry", <<<<"f">>>>),
                Line("blank", <<>>),
                Line("header", <<<<"d", ":">>>>), Line("entry", <<<<"a">>>>),
                Line("entry", <<<<"b">>>>), Line("entry", <<<<"s">>>>) >>

-----------------------------------------------------------------------------
\* C18: tail -n N FILE writes exactly the last min(N, L) lines of a file of
\* L lines, in their order, for every N >= 0 (N = 10 when -n is not given),
\* and tail -n +N FILE writes the lines from line N on.
TextOf(lines) ==
    LET texts == SelectSeq(lines, LAMBDA l : l.kind = "text")
    IN  [k \in 1..Len(texts) |-> texts[k].cols[1]]

LastLines(lines, n) ==
    SubSeq(lines, Len(lines) - (IF n < Len(lines) THEN n ELSE Len(lines)) + 1, Len(lines))

C18_TailLines ==
    (Done /\ fn = "tail") =>
        \A k \in 1..Len(files) :
            files[k] = T =>
                /\ args.n = None => TextOf(log[k].out) = LastLines(fs[T].lines, 10)
                /\ \A n \in 0..MaxCount :
                      /\ args.n = str(n) => TextOf(log[k].out) = LastLines(fs[T].lines, n)
                      /\ args.n = <<"+">> \o str(n) =>
                            TextOf(log[k].out) =
                                SubSeq(fs[T].lines, IF n = 0 THEN 1 ELSE n, Len(fs[T].lines))

-----------------------------------------------------------------------------
\* C19: wc returns 1 when one of the files named cannot be opened, and names
\* that file on the error stream; it returns 0 only when every file named
\* was counted; a file that can be read is counted and printed whatever
\* happens to the others.
Unopenable(path) == path \notin DOMAIN fs

EndsWith(text, tail) ==
    Len(text) >= Len(tail) /\ SubSeq(text, Len(text) - Len(tail) + 1, Len(text)) = tail

C19_WcExitStatus ==
    (Done /\ fn = "wc") =>
        /\ (\E k \in 1..Len(files) : Unopenable(files[k])) => ret = 1
        /\ ret = 0 => \A k \in 1..Len(files) : ~Unopenable(files[k])
        /\ \A k \in 1..Len(files) :
              IF Unopenable(files[k])
              THEN \E e \in 1..Len(err) :
                      err[e].cols[1] = <<"wc: ">> \o files[k] \o <<": ">>
                                          \o <<"No such file or directory">>
              ELSE \E o \in 1..Len(out) :
                      out[o].kind = "count"
                      /\ (files[k] # Stdin => EndsWith(out[o].cols[1], <<" ">> \o files[k]))

-----------------------------------------------------------------------------
\* C20: recursive descent is transitive.  Under -R a directory reached
\* through two nested real subdirectories gets a block of its own: when the
\* working directory is listed and the block of its subdirectory d is
\* printed, so is the block of d's subdirectory s.
HereD  == <<Dot, <<"d">>>>
HereDS == <<Dot, <<"d">>, <<"s">>>>

HasBlock(lines, path) ==
    \E h \in 2..Len(lines) : lines[h - 1] = BlankLine /\ lines[h] = HeaderLine(path)

C20_TransitiveDescent ==
    (Done /\ options.recursive /\ ~options.directory) =>
        \A k \in 1..Len(files) :
            (/\ files[k] = <<Dot>>
             /\ os_path_isdir(HereDS) /\ ~os_path_islink(HereDS)
             /\ HasBlock(log[k].out, HereD))
                => HasBlock(log[k].out, HereDS)

-----------------------------------------------------------------------------
\* C21: the renderer never re-sorts.  Every block that is printed, the block
\* of the listed directory d and the block of its subdirectory s printed
\* under -R, shows its names in the order the sorter produces for the
\* directory of the block under the selected sort key and reverse flag.
NameSeq(lines) ==
    [k \in 1..Len(lines) |-> strip_ansi_codes(lines[k].cols[Len(lines[k].cols)])]

SorterOrder(directory) ==
    SortEntries(directory, FilterHidden(fs[directory].names, options), options)

PositionIn(s, n) == CHOOSE k \in 1..Len(s) : s[k] = n

InOrderOf(printed, sorted) ==
    /\ Range(printed) \subseteq Range(sorted)
    /\ \A j, k \in 1..Len(printed) :
          j < k => PositionIn(sorted, printed[j]) < PositionIn(sorted, printed[k])

C21_RendererKeepsOrder ==
    (Done /\ options.recursive) =>
        /\ InOrderOf(NameSeq(TopBlock(out)), SorterOrder(D))
        /\ SubdirShown => InOrderOf(NameSeq(SubdirLines), SorterOrder(DS))

\* the part of C21 about the block of the listed directory itself
C21_TopBlockKeepsOrder ==
    (Done /\ options.recursive) => InOrderOf(NameSeq(TopBlock(out)), SorterOrder(D))

-----------------------------------------------------------------------------
\* C22: column-major grid.  With n entries, C columns (the terminal width
\* divided by the column width, at least 1) and R = ceil(n / C) rows, R rows
\* are printed and the entry at index i of the sorter's order is the cell
\* number (i div R) of row (i mod R), counted from 0: reading down each
\* column, columns left to right, gives the sorter's order.
ColumnCount ==
    IF term_width \div ColumnWidth >= 1 THEN term_width \div ColumnWidth ELSE 1

RowCount == (Cardinality(Listed) + ColumnCount - 1) \div ColumnCount

C22_ColumnMajor ==
    GridUsed =>
        /\ Len(out) = RowCount
        /\ Len(SorterOrder(D)) = Cardinality(Listed)
        /\ \A idx \in 0..(Cardinality(Listed) - 1) :
              /\ Len(CellsOf(out[(idx % RowCount) + 1])) > idx \div RowCount
              /\ CellsOf(out[(idx % RowCount) + 1])[(idx \div RowCount) + 1]
                    = SorterOrder(D)[idx + 1]

\* a, b and s in two columns: a above b in the first, s in the second
C22_Witness ==
    /\ GridUsed /\ ColumnCount = 2 /\ RowCount = 2
    /\ CellsOf(out[1]) = << <<"a">>, <<"s">> >>
    /\ CellsOf(out[2]) = << <<"b">> >>

-----------------------------------------------------------------------------
\* C23: no trailing padding.  In the multi-column layout every printed row
\* ends with the last character of its last entry, also a row that holds
\* fewer entries than there are columns, and every cell before the last one
\* of the row is padded with spaces to the column width.
RowText(line) == strip_ansi_codes(line.cols[1])

C23_NoTrailingPadding ==
    GridUsed =>
        \A k \in 1..Len(out) :
            LET cells == CellsOf(out[k])
            IN  /\ RowText(out[k])[Len(RowText(out[k]))] # " "
                /\ Len(RowText(out[k]))
                      = (Len(cells) - 1) * ColumnWidth + Len(cells[Len(cells)])

\* the part of C23 the layout keeps: a cell in the last of the C columns is
\* not padded, every cell in another column is padded to the column width
C23_LastColumnUnpadded ==
    GridUsed =>
        \A k \in 1..Len(out) :
            LET cells == CellsOf(out[k])
            IN  Len(RowText(out[k]))
                   = IF Len(cells) = ColumnCount
                     THEN (Len(cells) - 1) * ColumnWidth + Len(cells[Len(cells)])
                     ELSE Len(cells) * ColumnWidth

-----------------------------------------------------------------------------
\* C24: long-format alignment.  In the long listing of a directory the rows
\* are those of the entries whose lstat succeeded, and the link count,
\* owner, group and size of every row are padded to the widest value of the
\* field among the rows printed; so every field, and the name, starts at the
\* same character offset in every row.
LongLines == SelectSeq(log[1].out, LAMBDA line : line.kind = "long")

Unpadded(text) == SelectSeq(text, LAMBDA c : c # " ")

\* the offset at which field j of a long row starts; the fields are
\* separated by one space, and field 6 is the time
FieldWidth(line, j) == IF j = 6 THEN strftime_len(line.cols[6][1]) ELSE Len(line.cols[j])

RECURSIVE OffsetOf(_, _)
OffsetOf(line, j) ==
    IF j = 1 THEN 0 ELSE OffsetOf(line, j - 1) + FieldWidth(line, j - 1) + 1

C24_LongAlignment ==
    (Done /\ options.l /\ log[1].what = "directory") =>
        /\ NameSeq(LongLines)
              = SelectSeq(SorterOrder(D), LAMBDA n : os_lstat(path_join(D, n)).ok)
        /\ \A j \in 2..5 :
              /\ \A r \in 1..Len(LongLines) :
                    \A q \in 1..Len(LongLines) :
                        Len(Unpadded(LongLines[q].cols[j])) <= Len(LongLines[r].cols[j])
              /\ LongLines # <<>> =>
                    \E q \in 1..Len(LongLines) :
                        Len(Unpadded(LongLines[q].cols[j])) = Len(LongLines[1].cols[j])
        /\ \A r, q \in 1..Len(LongLines) :
              \A j \in 1..7 : OffsetOf(LongLines[r], j) = OffsetOf(LongLines[q], j)

\* ls -l -a d, d holding .h (12 links) and the unreachable g: three rows,
\* g left out, the link count of "." right-aligned to two characters
C24_Witness ==
    /\ Done /\ args.flags = {"-l", "-a"}
    /\ fs[D].names = << <<".", "h">>, <<"g">> >>
    /\ Len(LongLines) = 3
    /\ LongLines[1].cols[2] = <<" ", "3">>
    /\ LongLines[3].cols[2] = <<"1", "2">>
    /\ LongLines[1].cols[3] = <<"7", " ", " ", " ">>

-----------------------------------------------------------------------------
\* C25: metadata is never taken through a symbolic link.  Stated for the
\* sorter: every visible entry of d whose own (non-following) metadata can be
\* read is listed, a symbolic link whose target is gone included, and under
\* -S and -t the listing is ordered by the entries' own sizes and times.
OwnSizeOf(n)  == os_lstat(path_join(D, n)).st_size
OwnMtimeOf(n) == os_lstat(path_join(D, n)).st_mtime

C25_NonFollowing ==
    Done =>
        /\ \A n \in Range(fs[D].names) :
              (os_lstat(path_join(D, n)).ok /\ (n[1] # "." \/ options.all))
                  => n \in Range(Printed)
        /\ (options.sort_by_time \/ options.sort_by_size) =>
              \A k \in 1..(Len(Printed) - 1) :
                  IF options.sort_by_time
                  THEN IF options.reverse
                       THEN OwnMtimeOf(Printed[k]) <= OwnMtimeOf(Printed[k + 1])
                       ELSE OwnMtimeOf(Printed[k]) >= OwnMtimeOf(Printed[k + 1])
                  ELSE IF options.reverse
                       THEN OwnSizeOf(Printed[k]) <= OwnSizeOf(Printed[k + 1])
                       ELSE OwnSizeOf(Printed[k]) >= OwnSizeOf(Printed[k + 1])

-----------------------------------------------------------------------------
\* C26: unreadable entries are skipped and isolated.  In every layout and
\* under every sort key, an entry of the listed directory whose metadata
\* cannot be read is not printed, and every other entry that the filter
\* keeps is printed.
C26_UnreadableSkipped ==
    (Done /\ log[1].what = "directory") =>
        /\ \A n \in EntryFailures : n \notin NamesIn(TopBlock(out))
        /\ \A n \in Range(FilterHidden(fs[D].names, options)) :
              Readable(D, n) => n \in NamesIn(TopBlock(out))

\* the part of C26 that holds: the long format leaves the entry out, and in
\* every layout the entries that can be read are printed
C26_LongSkipsOthersPrinted ==
    (Done /\ log[1].what = "directory") =>
        /\ options.l => \A n \in EntryFailures : n \notin NamesIn(TopBlock(out))
        /\ \A n \in Range(FilterHidden(fs[D].names, options)) :
              Readable(D, n) => n \in NamesIn(TopBlock(out))

-----------------------------------------------------------------------------
\* C27: the set of names printed for a directory does not depend on the
\* ordering options.  Whatever -S, -t and -r say, the names printed for d are
\* the names the same command prints with none of the three, also when d
\* holds an entry for which a following stat fails.
NameOrder(opts) ==
    [opts EXCEPT !.sort_by_time = FALSE, !.sort_by_size = FALSE, !.reverse = FALSE]

C27_NameSetIndependent ==
    Done => NamesIn(out) = NamesIn(list_directory(D, NameOrder(options), <<>>).out)

\* the part of C27 that holds: -r alone never changes the set
C27_ReverseKeepsSet ==
    Done => NamesIn(out)
               = NamesIn(list_directory(D, [options EXCEPT !.reverse = FALSE], <<>>).out)

-----------------------------------------------------------------------------
\* C28: in human-readable mode the one-decimal form never has a two-digit
\* integer part.  For every size of 1024 bytes or more, a result of
\* format_size that holds a decimal point has exactly one digit before it;
\* in particular the result is never "10.0" followed by a unit.
C28_NoTenPointZero ==
    (Done /\ fn = "format_size" /\ in_human /\ in_size >= 1024) =>
        /\ \A k \in 1..Len(ret) : ret[k] = "." => k = 2
        /\ ~(Len(ret) >= 5 /\ SubSeq(ret, 1, 4) = <<"1", "0", ".", "0">>)

-----------------------------------------------------------------------------
\* C29: headers only for listed paths.  When several paths are given
\* without -d, standard output holds no "path:" header of a path that does
\* not exist, and holds nothing else for it either: its lines are the
\* header and the listing of every path that exists, with one blank line
\* between two of them.
Existing == {k \in 1..Len(files) : ~Missing(files[k])}

C29_HeadersOnlyForListed ==
    (Done /\ Len(files) > 1 /\ ~options.directory) =>
        /\ \A k \in 1..Len(files) :
              Missing(files[k]) => HeaderLine(files[k]) \notin Range(out)
        /\ Len(out)
              = Sum([k \in 1..Len(files) |->
                        IF Missing(files[k]) THEN 0 ELSE 1 + Len(log[k].out)])
                + (IF Existing = {} THEN 0 ELSE Cardinality(Existing) - 1)

-----------------------------------------------------------------------------
\* C30: termination and bounded descent.  For every argument list and every
\* tree, trees whose symbolic links form cycles included, main ends and
\* returns an exit code; and under -R every block printed below an argument
\* is that of an entry of the argument which is not ".", not ".." and not
\* a symbolic link, and no two blocks below one argument are the same
\* directory.
SubHeaders(k) == {h \in 1..Len(log[k].out) : log[k].out[h].kind = "header"}

Candidates(k) ==
    {path_join(files[k], n) : n \in Range(os_listdir(files[k]).names) \cup {Dot, DotDot}}

Canonical(path) == Walk(<<>>, path, TRUE).at

BoundedDescent ==
    Done =>
        \A k \in 1..Len(files) :
            /\ \A h \in SubHeaders(k) :
                  \E p \in Candidates(k) :
                      /\ log[k].out[h] = HeaderLine(p)
                      /\ basename(p) \notin {Dot, DotDot}
                      /\ ~os_path_islink(p)
                      /\ Canonical(p) # Canonical(files[k])
            /\ \A h1, h2 \in SubHeaders(k) :
                  h1 # h2 => log[k].out[h1] # log[k].out[h2]

C30_TerminationAndDescent ==
    /\ <>(Done /\ ret \in {0, 1})
    /\ []BoundedDescent

\* ls -R -a -1 d, d holding the directory s and the link e to it: main has
\* returned 0 and the one block printed is that of d/s
C30_Witness ==
    /\ Done /\ ret = 0 /\ args.flags = {"-R", "-a", "-1"}
    /\ files = <<D>>
    /\ fs[D].names = << <<"e">>, <<"s">> >>
    /\ Cardinality(SubHeaders(1)) = 1
    /\ \E h \in SubHeaders(1) : log[1].out[h] = HeaderLine(DS)

====
